---- MODULE Spec2Model ----
(***************************************************************************)
(* State-machine model of the VCET AI chatbot web client                   *)
(* (static/js/services/api.js, static/js/services/storage.js).             *)
(*                                                                         *)
(* Strings whose characters matter (the credential) are sequences of       *)
(* one-character strings.  The text of the message box is kept as its      *)
(* shape [pre, body, post]: pre/post are the numbers of leading/trailing   *)
(* white-space characters, body the number of characters between them      *)
(* (the first and last of which are not white space).  An optional value   *)
(* (null in the code) is <<>> when absent and <<v>> when present.          *)
(* A chat entry is [id, sender]: id numbers the exchange whose text it     *)
(* carries, so that two entries with equal id and sender have the same     *)
(* content.                                                                *)
(*                                                                         *)
(* A page load runs initializeApp; the loading overlay covers the chat     *)
(* while the bootstrap runs, so a page load is one step that ends with     *)
(* loadChatHistory.                                                        *)
(***************************************************************************)
EXTENDS Integers, Sequences, FiniteSets, TLC

VARIABLES
    lsApiKey,            \* localStorage['vcet_groq_api_key']
    lsChat,              \* localStorage['chatHistory'] (parsed JSON)
    isAvailable,         \* storageService.isAvailable
    chatHistory,         \* let chatHistory
    isProcessing,        \* let isProcessing
    isRateLimited,       \* let isRateLimited
    consecutiveFailures, \* let consecutiveFailures
    inputValue,          \* elements.messageInput.value
    inputDisabled,       \* elements.messageInput.disabled
    sendBtnDisabled,     \* elements.sendBtn.disabled
    popupActive,         \* elements.rateLimitPopup has class 'active'
    pending,             \* the fetch of sendQuery that is in flight
    nextId,              \* number of exchanges started so far
    reloads,             \* number of page loads after the first
    streak,              \* queries that failed in a row since the last answered
                         \* one or reset, counted to MAX_CONSECUTIVE_FAILURES (history)
    lastOp,              \* the last operation, its outcome and whether
                         \* isRateLimited held when it began (history)
    boot,                \* the loading overlay and the run of startLoadingProcess
    http,                \* the call of ApiService.request in progress and the
                         \* request last put on the network
    stg,                 \* localStorage as StorageService sees it, and the
                         \* adapter's last operation (history)
    fn,                  \* the module state of the serverless functions and
                         \* the response to the last invocation (history)
    touch                \* a GestureManager (gm) and a PullToRefreshController
                         \* (ptr) with the touch events they have handled

vars == <<lsApiKey, lsChat, isAvailable, chatHistory, isProcessing,
          isRateLimited, consecutiveFailures, inputValue, inputDisabled,
          sendBtnDisabled, popupActive, pending, nextId,
          reloads, streak, lastOp, boot, http, stg, fn, touch>>

\* the state of the chat page proper
uiVars == <<lsApiKey, lsChat, isAvailable, chatHistory, isProcessing,
            isRateLimited, consecutiveFailures, inputValue, inputDisabled,
            sendBtnDisabled, popupActive, pending, nextId,
            reloads, streak, lastOp>>

\* the state the handlers of the chat page leave alone
auxVars == <<boot, http, stg, fn, touch>>

storeVars == <<lsApiKey, lsChat, isAvailable>>
rateVars  == <<isRateLimited, consecutiveFailures, popupActive>>
domVars   == <<inputValue, inputDisabled, sendBtnDisabled>>

(***************************************************************************)
(* Bounds of the model and constants of the program                        *)
(***************************************************************************)
MaxSends == 3
MaxReloads == 1
MaxChatSends == 2
PriorExchanges == 24

MaxRuns == 2
MaxCalls == 2
MaxInvocations == 3
MaxTicks == 2
PriorEntries == 99
MaxTouches == 4
MaxRefreshes == 2

MAX_CONSECUTIVE_FAILURES == 3
maxAttempts == 60
LOADING_WARNING_TIME == 5 * 60 * 1000
LOADING_TIMEOUT_TIME == 30 * 60 * 1000
MaxHistory == 50
CharLimit == 1000
CACHE_TTL == 3600000
CacheLimit == 100
SuggestionsLength == 10

None == <<>>
Some(v) == <<v>>

(***************************************************************************)
(* Strings                                                                 *)
(***************************************************************************)
Str_empty == <<>>
Str_space == <<" ">>
Str_gsk_a == <<"g", "s", "k", "_", "a">>
Str_padded == <<" ", "g", "s", "k", "_", "a", " ">>
Str_other == <<"s", "k", "_", "a">>

KeyInputs == {Str_empty, Str_space, Str_gsk_a, Str_padded, Str_other}

IsSpace(c) == c = " "

RECURSIVE TrimLeft(_)
TrimLeft(s) == IF s /= <<>> /\ IsSpace(Head(s)) THEN TrimLeft(Tail(s)) ELSE s

RECURSIVE TrimRight(_)
TrimRight(s) ==
    IF s /= <<>> /\ IsSpace(s[Len(s)]) THEN TrimRight(SubSeq(s, 1, Len(s) - 1)) ELSE s

\* String.prototype.trim
Trim(s) == TrimRight(TrimLeft(s))

\* String.prototype.startsWith
StartsWith(s, p) == Len(s) >= Len(p) /\ SubSeq(s, 1, Len(p)) = p

Prefix_gsk == <<"g", "s", "k", "_">>

\* a string in a boolean context
Truthy(s) == s /= <<>>

(***************************************************************************)
(* The text of the message box                                             *)
(***************************************************************************)
Text(p, b, q) == [pre |-> p, body |-> b, post |-> q]
EmptyText == Text(0, 0, 0)

TextLen(t) == t.pre + t.body + t.post

\* elements.messageInput.value.trim()
TrimText(t) == IF t.body = 0 THEN EmptyText ELSE Text(0, t.body, 0)

TextInputs ==
    {Text(0, 0, 0), Text(1, 0, 0), Text(1, 1, 1), Text(0, CharLimit + 1, 0)}

\* queries.contact of handleQuickAction: "How can I contact VCET?"
QuickActionText == Text(0, 23, 0)

(***************************************************************************)
(* Chat history                                                            *)
(***************************************************************************)
Entry(id, sender) == [id |-> id, sender |-> sender]

\* Array.prototype.slice(-n)
SliceLast(h, n) == IF Len(h) <= n THEN h ELSE SubSeq(h, Len(h) - n + 1, Len(h))

\* chatHistory.push({content, sender, timestamp, options}) of addMessage
AddMessage(h, id, sender) == Append(h, Entry(id, sender))

\* lastOp: the last operation and its outcome
Op(name, res) == [op |-> name, res |-> res, blocked |-> isRateLimited]

\* the entries of n completed exchanges, in the order they were added
Exchanged(n) ==
    [i \in 1..(2 * n) |-> Entry((i - 1) \div 2, IF i % 2 = 1 THEN "user" ELSE "bot")]

(***************************************************************************)
(* Loading overlay: the record boot                                        *)
(*   pc        where startLoadingProcess stands: "health" (first           *)
(*             checkHealth awaited), "sleep", "poll" (the loop),           *)
(*             "vectorStore", "readyStep", "suggestions" (the awaits after *)
(*             the loop), or where it returned: "ready", "error",          *)
(*             "timedOut"                                                  *)
(*   attempts, ragFirst (healthResult.ragInitialized): its locals          *)
(*   elapsed   Date.now() - loadingStartTime, by its class: 0 for less     *)
(*             than LOADING_WARNING_TIME, LOADING_WARNING_TIME for that or *)
(*             more but less than LOADING_TIMEOUT_TIME, LOADING_TIMEOUT_   *)
(*             TIME for that or more.  fetch has no timeout, so any class  *)
(*             can be reached at any await; maxAttempts sleeps of 2 s stay *)
(*             in the first class.                                         *)
(*   status    the class of each loading-status item                       *)
(*   progress  the percent loadingProgressPercent shows                    *)
(*   hasStatusItems  the page has the elements statusServer, statusModel,  *)
(*             statusVectorStore, statusReady                              *)
(*   timers    the setInterval timers that are active; intervalSet:        *)
(*             loadingInterval is not null                                 *)
(*   checks, sawRag, timeouts, first: history of the current run (health   *)
(*             checks made, one of them reported rag_initialized, calls of *)
(*             showTimeoutPopup, the outcome of the first health check);   *)
(*   runs      calls of startLoadingProcess; op: the last step             *)
(***************************************************************************)
Steps == {"server", "model", "vectorStore", "ready"}

ElapsedClasses == {0, LOADING_WARNING_TIME, LOADING_TIMEOUT_TIME}

\* startLoadingProcess up to its first await, on the overlay b
StartLoadingProcess(b) ==
    [b EXCEPT !.pc = "health", !.attempts = 0, !.ragFirst = FALSE, !.elapsed = 0,
              !.timers = b.timers + 1, !.intervalSet = TRUE,
              !.status = IF b.hasStatusItems THEN [b.status EXCEPT !["server"] = "active"]
                         ELSE b.status,
              !.progress = 10,
              !.checks = 0, !.sawRag = FALSE, !.timeouts = 0, !.first = None,
              !.runs = b.runs + 1, !.op = "start"]

\* the overlay as the page's markup and the script's declarations give it
BootBlank(has) ==
    [pc |-> "none", attempts |-> 0, ragFirst |-> FALSE, elapsed |-> 0,
     status |-> [s \in Steps |-> ""], hasStatusItems |-> has, progress |-> 0,
     overlayHidden |-> FALSE, warningVisible |-> FALSE, retryBtnShown |-> FALSE,
     timeoutPopupActive |-> FALSE, timers |-> 0, intervalSet |-> FALSE,
     checks |-> 0, sawRag |-> FALSE, timeouts |-> 0, first |-> None,
     runs |-> 0, op |-> "none"]

\* the overlay once a bootstrap whose first health check reported
\* rag_initialized has run to its end
BootLoaded ==
    [BootBlank(TRUE) EXCEPT !.pc = "ready", !.ragFirst = TRUE,
                            !.status = [s \in Steps |-> "completed"],
                            !.progress = 100,
                            !.overlayHidden = TRUE, !.checks = 1, !.sawRag = TRUE,
                            !.runs = 1, !.op = "step"]

\* no call of ApiService.request has been made
HttpIdle ==
    [pc |-> "idle", timerArmed |-> FALSE, cause |-> None, result |-> None,
     sent |-> None, calls |-> 0, op |-> "none"]

\* the entries of StorageKeys
StorageKeys ==
    [API_KEY |-> "vcet_groq_api_key", THEME |-> "theme", CHAT_HISTORY |-> "chatHistory",
     USER_PREFERENCES |-> "vcet_preferences", LAST_VISIT |-> "vcet_last_visit"]

KeyNames == {StorageKeys[f] : f \in DOMAIN StorageKeys}

\* new StorageService() over an empty localStorage; available is what
\* checkAvailability returned
StorageConstructed(available) ==
    [isAvailable |-> available, items |-> [k \in KeyNames |-> None],
     last |-> [op |-> "constructor", kind |-> "none", def |-> "", threw |-> FALSE,
               ret |-> "", failed |-> ~available, changed |-> FALSE]]

(***************************************************************************)
(* Touch gestures (GestureManager, PullToRefreshController)                *)
(*                                                                         *)
(* touch.gm is the TouchState of one GestureManager with                   *)
(*   longPressTimer  whether the field holds a timer id                   *)
(*   armed     the time at which the pending long-press timer is due, if  *)
(*             one is pending in the browser                               *)
(*   emitted   the events the last handler passed to emit                  *)
(*   now       Date.now(), counted from 1000 ms before construction        *)
(*   down      fingers on the element                                      *)
(*   events    touch events handled so far                                 *)
(*   ev        the last event: type, the point of the finger concerned,    *)
(*             and tap: the finger went down alone, came up where it went  *)
(*             down and no long press fired (history)                      *)
(*   firstTap  the end of the previous tap when it can be the first of a   *)
(*             pair (history)                                              *)
(* touch.ptr is one PullToRefreshController with                           *)
(*   promises  calls of options.onRefresh whose promise has not settled    *)
(*   timers    setTimeout(() => this.reset(), ...) callbacks pending       *)
(*   refreshes calls of triggerRefresh so far                              *)
(* Coordinates are whole pixels, times whole milliseconds; a square root   *)
(* is compared through its square and a quotient through its product.     *)
(***************************************************************************)
GESTURE_CONFIG ==
    [swipe |-> [threshold |-> 50, velocityTenths |-> 3, maxTime |-> 300,
                restraint |-> 100],
     longPress |-> [duration |-> 500, moveTolerance |-> 10],
     doubleTap |-> [maxInterval |-> 300, maxDistance |-> 30],
     pullToRefresh |-> [threshold |-> 80, maxPull |-> 150, resistanceTenths |-> 25]]

\* TouchState.reset: every field of the TouchState goes back to its initial
\* value; what the model adds is kept
TouchStateReset(s) ==
    [startX |-> 0, startY |-> 0, startTime |-> 0,
     lastTapTime |-> 0, lastTapX |-> 0, lastTapY |-> 0,
     longPressTimer |-> FALSE, isLongPress |-> FALSE, isPinching |-> FALSE,
     armed |-> s.armed, emitted |-> s.emitted, now |-> s.now, down |-> s.down,
     events |-> s.events, ev |-> s.ev, firstTap |-> s.firstTap]

\* new PullToRefreshController(container, {onRefresh}) with the default
\* threshold, maxPull and refreshTimeout
PullConstructed(hasOnRefresh) ==
    [options |-> [threshold |-> 80, maxPull |-> 120, refreshTimeout |-> 2000,
                  onRefresh |-> hasOnRefresh],
     isPulling |-> FALSE, isRefreshing |-> FALSE, pullDistance |-> 0,
     startY |-> 0, currentY |-> 0,
     promises |-> 0, timers |-> 0, refreshes |-> 0, op |-> "new"]

\* new GestureManager(element) and new PullToRefreshController(container)
TouchIdle(hasOnRefresh) ==
    [gm |-> TouchStateReset([armed |-> None, emitted |-> {}, now |-> 1000,
                             down |-> 0, events |-> 0,
                             ev |-> [type |-> "none", x |-> 0, y |-> 0, tap |-> FALSE],
                             firstTap |-> None]),
     ptr |-> PullConstructed(hasOnRefresh)]

\* GestureManager.handleTouchStart; e.x, e.y is e.touches[0], t is Date.now()
HandleTouchStart(s, e, t) ==
    LET s1 == [s EXCEPT !.startX = e.x, !.startY = e.y, !.startTime = t,
                        !.isLongPress = FALSE]
    IN  IF e.touches = 2
        THEN [s1 EXCEPT !.isPinching = TRUE, !.emitted = {"pinchStart"}]
        ELSE [s1 EXCEPT !.longPressTimer = TRUE,
                        !.armed = Some(t + GESTURE_CONFIG.longPress.duration),
                        !.emitted = {}]

\* GestureManager.handleTouchEnd; e.x, e.y is e.changedTouches[0], e.atTop
\* tells whether element.scrollTop <= 0, t is Date.now()
HandleTouchEnd(s, e, t) ==
    LET c == GESTURE_CONFIG
        s0 == [s EXCEPT !.longPressTimer = FALSE,
                        !.armed = IF s.longPressTimer THEN None ELSE @]
        deltaX == e.x - s.startX
        deltaY == e.y - s.startY
        deltaTime == t - s.startTime
        timeSinceLastTap == t - s.lastTapTime
        distanceSquared == (e.x - s.lastTapX) * (e.x - s.lastTapX)
                           + (e.y - s.lastTapY) * (e.y - s.lastTapY)
        dbl == /\ timeSinceLastTap < c.doubleTap.maxInterval
               /\ distanceSquared < c.doubleTap.maxDistance * c.doubleTap.maxDistance
        s1 == IF dbl THEN [s0 EXCEPT !.lastTapTime = 0]
              ELSE [s0 EXCEPT !.lastTapTime = t, !.lastTapX = e.x, !.lastTapY = e.y]
        absX == IF deltaX < 0 THEN -deltaX ELSE deltaX
        absY == IF deltaY < 0 THEN -deltaY ELSE deltaY
        fast == /\ deltaTime <= c.swipe.maxTime
                /\ 10 * (IF absX > absY THEN absX ELSE absY)
                   >= c.swipe.velocityTenths * deltaTime
        swipe == IF ~fast THEN {}
                 ELSE IF absX > c.swipe.threshold /\ absY < c.swipe.restraint
                 THEN {IF deltaX > 0 THEN "swipeRight" ELSE "swipeLeft"}
                 ELSE IF absY > c.swipe.threshold /\ absX < c.swipe.restraint
                 THEN {IF deltaY > 0 THEN "swipeDown" ELSE "swipeUp"}
                 ELSE {}
        out == (IF dbl THEN {"doubleTap"} ELSE {})
               \cup (IF e.atTop /\ deltaY > 0 THEN {"pullEnd"} ELSE {})
               \cup swipe
    IN  IF s.isPinching THEN TouchStateReset([s0 EXCEPT !.emitted = {"pinchEnd"}])
        ELSE IF s.isLongPress THEN TouchStateReset([s0 EXCEPT !.emitted = {}])
        ELSE TouchStateReset([s1 EXCEPT !.emitted = out])

\* the touchstart listener without its isRefreshing test
PullTouchStart_NoRefreshCheck(p, e) ==
    IF e.atTop THEN [p EXCEPT !.startY = e.y, !.isPulling = TRUE, !.op = "touchstart"]
    ELSE [p EXCEPT !.op = "touchstart"]

\* PullToRefreshController: the touchstart listener of init; e.y is
\* e.touches[0].clientY, e.atTop tells whether container.scrollTop <= 0
PullTouchStart(p, e) ==
    IF e.atTop /\ ~p.isRefreshing
    THEN [p EXCEPT !.startY = e.y, !.isPulling = TRUE, !.op = "touchstart"]
    ELSE [p EXCEPT !.op = "touchstart"]

\* the touchmove listener of init.  The clientY values of the model are
\* even, so that delta * 0.5 is delta \div 2.
PullTouchMove(p, e) ==
    IF ~p.isPulling \/ p.isRefreshing THEN [p EXCEPT !.op = "touchmove"]
    ELSE LET delta == e.y - p.startY
         IN  IF delta > 0 /\ e.atTop
             THEN [p EXCEPT !.currentY = e.y,
                            !.pullDistance = IF delta \div 2 < p.options.maxPull
                                             THEN delta \div 2
                                             ELSE p.options.maxPull,
                            !.op = "touchmove"]
             ELSE [p EXCEPT !.currentY = e.y, !.op = "touchmove"]

\* the touchend listener of init, with triggerRefresh and reset; throws
\* tells whether options.onRefresh throws before it returns
PullTouchEnd(p, throws) ==
    IF ~p.isPulling THEN [p EXCEPT !.op = "touchend"]
    ELSE IF p.pullDistance >= p.options.threshold /\ ~p.isRefreshing
    THEN IF ~p.options.onRefresh
         THEN [p EXCEPT !.isRefreshing = TRUE, !.timers = @ + 1,
                        !.refreshes = @ + 1, !.isPulling = FALSE, !.op = "refresh"]
         ELSE IF throws
         THEN [p EXCEPT !.isRefreshing = TRUE, !.refreshes = @ + 1, !.op = "threw"]
         ELSE [p EXCEPT !.isRefreshing = TRUE, !.promises = @ + 1,
                        !.refreshes = @ + 1, !.isPulling = FALSE, !.op = "refresh"]
    ELSE [p EXCEPT !.pullDistance = 0, !.isRefreshing = FALSE,
                   !.isPulling = FALSE, !.op = "touchend"]

\* the functions after a cold start; envKey tells whether the deployment
\* sets GROQ_API_KEY
FnCold(envKey) ==
    [responseCache |-> <<>>, requestCount |-> 0, upstream |-> 0, now |-> 0,
     envKey |-> envKey, calls |-> 0, req |-> None, ev |-> None, resp |-> None]

AuxInit ==
    /\ boot = BootLoaded
    /\ http = HttpIdle
    /\ touch = TouchIdle(TRUE)
    /\ stg = StorageConstructed(TRUE)
    /\ fn = FnCold(TRUE)

\* the page has been loaded with an empty localStorage
Init ==
    /\ AuxInit
    /\ lsApiKey = None
    /\ lsChat = None
    /\ isAvailable \in BOOLEAN
    /\ chatHistory = <<>>
    /\ isProcessing = FALSE
    /\ isRateLimited = FALSE
    /\ consecutiveFailures = 0
    /\ inputValue = EmptyText
    /\ inputDisabled = FALSE
    /\ sendBtnDisabled \in BOOLEAN
    /\ popupActive = FALSE
    /\ pending = None
    /\ nextId = 0
    /\ reloads = 0
    /\ streak = 0
    /\ lastOp = [op |-> "init", res |-> "", blocked |-> FALSE]

(***************************************************************************)
(* Rate-limit functions                                                    *)
(***************************************************************************)
\* updateCharCount: elements.sendBtn.disabled = length === 0 || isProcessing
UpdateCharCount(value, processing) == TextLen(value) = 0 \/ processing

\* sendQuery after the fetch settles: what the outcome does to the
\* rate-limit state.  o.kind = "network": fetch rejected; otherwise a
\* response with o.status whose body is JSON (o.parsable) or not.
\* Returns res, the new consecutiveFailures and whether
\* handleRateLimitExceeded ran.
SendQueryOutcome(o, cf) ==
    IF o.kind = "network" THEN [res |-> "network", cf |-> cf, exceeded |-> FALSE]
    ELSE IF ~o.parsable THEN [res |-> "unparsable", cf |-> cf, exceeded |-> FALSE]
    ELSE IF o.status = 429 THEN [res |-> "429", cf |-> cf, exceeded |-> TRUE]
    ELSE IF ~(o.status \in 200..299)
         THEN [res |-> "http", cf |-> cf + 1,
               exceeded |-> (cf + 1 >= MAX_CONSECUTIVE_FAILURES)]
    ELSE [res |-> "ok", cf |-> 0, exceeded |-> FALSE]

Statuses == {200, 429, 500}

Outcomes ==
    {[kind |-> "network", status |-> 0, parsable |-> FALSE]}
    \cup {[kind |-> "response", status |-> s, parsable |-> b] :
            s \in Statuses, b \in BOOLEAN}

(***************************************************************************)
(* sendMessage                                                             *)
(***************************************************************************)
\* sendMessage without its isRateLimited guard
SendDecision_NoRateCheck(message, processing, limited) ==
    IF message.body = 0 \/ processing THEN "ignored" ELSE "dispatched"

\* sendMessage without its isProcessing guard
SendDecision_NoProcessingCheck(message, processing, limited) ==
    IF message.body = 0 THEN "ignored"
    ELSE IF limited THEN "blocked"
    ELSE "dispatched"

\* the guards of sendMessage
SendDecision(message, processing, limited) ==
    IF message.body = 0 \/ processing THEN "ignored"
    ELSE IF limited THEN "blocked"
    ELSE "dispatched"

\* the X-Groq-Api-Key header sendQuery builds
QueryHeader(saved) == IF saved /= None /\ Truthy(saved[1]) THEN saved ELSE None

\* sendMessage up to the fetch of sendQuery
SendMessage(limit) ==
    LET message == TrimText(inputValue)
        d == SendDecision(message, isProcessing, isRateLimited)
    IN  /\ UNCHANGED auxVars
        /\ lastOp' = Op("send", d)
        /\ IF d = "dispatched"
           THEN /\ nextId < limit
                /\ isProcessing' = TRUE
                /\ chatHistory' = AddMessage(chatHistory, nextId, "user")
                /\ inputValue' = EmptyText
                /\ sendBtnDisabled' = UpdateCharCount(EmptyText, TRUE)
                /\ pending' = Some([id |-> nextId, len |-> TextLen(message)])
                /\ nextId' = nextId + 1
                /\ UNCHANGED <<storeVars, rateVars, inputDisabled, reloads, streak>>
           ELSE UNCHANGED <<storeVars, rateVars, domVars, chatHistory, isProcessing,
                            pending, nextId, reloads, streak>>

\* click on elements.sendBtn
ClickSend == ~sendBtnDisabled /\ SendMessage(MaxSends)

\* Enter in elements.messageInput
PressEnter == ~inputDisabled /\ SendMessage(MaxSends)

\* saveChatHistory without the slice(-50)
SaveChatHistory_NoSlice(h, old, writeOk) == IF writeOk THEN Some(h) ELSE old

\* saveChatHistory: what localStorage['chatHistory'] holds afterwards
SaveChatHistory(h, old, writeOk) ==
    IF writeOk THEN Some(SliceLast(h, MaxHistory)) ELSE old

\* the fetch of sendQuery settles: rest of sendQuery and of sendMessage
QueryResponse(o, writeOk) ==
    /\ pending /= None
    /\ LET r == SendQueryOutcome(o, consecutiveFailures)
           h == AddMessage(chatHistory, pending[1].id, "bot")
       IN  /\ consecutiveFailures' = r.cf
           /\ isRateLimited' = (isRateLimited \/ r.exceeded)
           /\ popupActive' = (popupActive \/ r.exceeded)
           /\ inputDisabled' = (inputDisabled \/ r.exceeded)
           /\ chatHistory' = h
           /\ lsChat' = IF r.res = "ok" THEN SaveChatHistory(h, lsChat, writeOk)
                        ELSE lsChat
           /\ streak' = IF r.res = "ok" THEN 0
                        ELSE IF streak < MAX_CONSECUTIVE_FAILURES THEN streak + 1
                        ELSE streak
           /\ UNCHANGED auxVars
           /\ lastOp' = Op("response", IF r.res = "ok" /\ ~writeOk THEN "okNotSaved"
                                       ELSE r.res)
    /\ isProcessing' = FALSE
    /\ sendBtnDisabled' = FALSE
    /\ pending' = None
    /\ UNCHANGED <<lsApiKey, isAvailable, inputValue, nextId, reloads>>

Respond == \E o \in Outcomes, writeOk \in BOOLEAN : QueryResponse(o, writeOk)

\* input event on elements.messageInput
TypeText ==
    /\ ~inputDisabled
    /\ \E t \in TextInputs :
        /\ inputValue' = t
        /\ sendBtnDisabled' = UpdateCharCount(t, isProcessing)
    /\ UNCHANGED auxVars
    /\ lastOp' = Op("type", "")
    /\ UNCHANGED <<storeVars, rateVars, chatHistory, isProcessing, inputDisabled,
                   pending, nextId, reloads, streak>>

\* handleQuickAction('contact')
HandleQuickAction ==
    /\ inputValue' = QuickActionText
    /\ sendBtnDisabled' = FALSE
    /\ UNCHANGED auxVars
    /\ lastOp' = Op("quick", "")
    /\ UNCHANGED <<storeVars, rateVars, chatHistory, isProcessing, inputDisabled,
                   pending, nextId, reloads, streak>>

\* clearChat, confirmed
ClearChat ==
    /\ chatHistory' = <<>>
    /\ lsChat' = None
    /\ UNCHANGED auxVars
    /\ lastOp' = Op("clearChat", "")
    /\ UNCHANGED <<lsApiKey, isAvailable, rateVars, domVars, isProcessing, pending,
                   nextId, reloads, streak>>

(***************************************************************************)
(* Settings: the credential                                                *)
(***************************************************************************)
\* saveApiKey without the check of the 'gsk_' prefix
SaveApiKeyDecision_NoFormat(apiKey) == IF ~Truthy(apiKey) THEN "empty" ELSE "valid"

\* the validation of saveApiKey, on the trimmed input
SaveApiKeyDecision(apiKey) ==
    IF ~Truthy(apiKey) THEN "empty"
    ELSE IF ~StartsWith(apiKey, Prefix_gsk) THEN "format"
    ELSE "valid"

\* saveApiKey with k typed into elements.apiKeyInput; writeOk: whether
\* localStorage.setItem succeeds
SaveApiKey(k, writeOk) ==
    LET apiKey == Trim(k)
        d == SaveApiKeyDecision(apiKey)
    IN  IF d = "valid" /\ writeOk
        THEN /\ lsApiKey' = Some(apiKey)
             /\ isRateLimited' = FALSE
             /\ consecutiveFailures' = 0
             /\ popupActive' = FALSE
             /\ inputDisabled' = FALSE
             /\ sendBtnDisabled' = UpdateCharCount(inputValue, isProcessing)
             /\ streak' = 0
             /\ UNCHANGED auxVars
             /\ lastOp' = Op("saveApiKey", "saved")
             /\ UNCHANGED <<lsChat, isAvailable, chatHistory, isProcessing, inputValue,
                            pending, nextId, reloads>>
        ELSE /\ UNCHANGED auxVars
             /\ lastOp' = Op("saveApiKey", IF d = "valid" THEN "writeFailed" ELSE d)
             /\ UNCHANGED <<storeVars, rateVars, domVars, chatHistory, isProcessing,
                            pending, nextId, reloads, streak>>

SaveKey == \E k \in KeyInputs, writeOk \in BOOLEAN : SaveApiKey(k, writeOk)

\* clearApiKey, confirmed
ClearApiKey ==
    /\ lsApiKey' = None
    /\ UNCHANGED auxVars
    /\ lastOp' = Op("clearApiKey", "")
    /\ UNCHANGED <<lsChat, isAvailable, rateVars, domVars, chatHistory, isProcessing,
                   pending, nextId, reloads, streak>>

\* dismissRateLimitPopup doing what resetRateLimitState does
DismissRateLimitPopup_Resets ==
    /\ popupActive' = FALSE
    /\ isRateLimited' = FALSE
    /\ consecutiveFailures' = 0
    /\ inputDisabled' = FALSE
    /\ sendBtnDisabled' = UpdateCharCount(inputValue, isProcessing)
    /\ UNCHANGED auxVars
    /\ lastOp' = Op("dismiss", "")
    /\ UNCHANGED <<storeVars, inputValue, chatHistory, isProcessing, pending, nextId,
                   reloads, streak>>

\* dismissRateLimitPopup
DismissRateLimitPopup ==
    /\ popupActive' = FALSE
    /\ UNCHANGED auxVars
    /\ lastOp' = Op("dismiss", "")
    /\ UNCHANGED <<storeVars, isRateLimited, consecutiveFailures, domVars, chatHistory,
                   isProcessing, pending, nextId, reloads, streak>>


(***************************************************************************)
(* Page load                                                               *)
(***************************************************************************)
RECURSIVE ReplayInto(_, _)
\* msgs.forEach(msg => addMessage(msg.content, msg.sender, ...)) pushing to h
ReplayInto(h, msgs) ==
    IF msgs = <<>> THEN h
    ELSE ReplayInto(AddMessage(h, Head(msgs).id, Head(msgs).sender), Tail(msgs))

\* loadChatHistory: the value of chatHistory afterwards.  forEach visits
\* the elements the array had when it was called.
LoadChatHistory(saved) ==
    IF saved = None THEN <<>>
    ELSE LET parsed == saved[1]
         IN  IF Len(parsed) > 0 THEN ReplayInto(parsed, parsed) ELSE parsed

\* the page is loaded again: the script state starts afresh, localStorage
\* stays, initializeApp runs to loadChatHistory
Reload ==
    /\ reloads < MaxReloads
    /\ reloads' = reloads + 1
    /\ isAvailable' \in BOOLEAN
    /\ chatHistory' = LoadChatHistory(lsChat)
    /\ isProcessing' = FALSE
    /\ isRateLimited' = FALSE
    /\ consecutiveFailures' = 0
    /\ inputValue' = EmptyText
    /\ inputDisabled' = FALSE
    /\ sendBtnDisabled' \in BOOLEAN
    /\ popupActive' = FALSE
    /\ pending' = None
    /\ streak' = 0
    /\ UNCHANGED auxVars
    /\ lastOp' = Op("reload", "")
    /\ UNCHANGED <<lsApiKey, lsChat, nextId>>

(***************************************************************************)
(* ApiService and StorageService                                           *)
(***************************************************************************)
\* ApiService.sendQuery -> post -> request: the fetch is issued, whatever
\* the state of the page; the result goes to the caller
ApiSendQuery ==
    /\ UNCHANGED auxVars
    /\ lastOp' = Op("ApiService.sendQuery", "dispatched")
    /\ UNCHANGED <<storeVars, rateVars, domVars, chatHistory, isProcessing, pending,
                   nextId, reloads, streak>>

\* ApiService.getApiKey
ApiGetApiKey(stored) == stored

\* ApiService.setApiKey: the stored entry afterwards (setItem throws when
\* the write fails)
ApiSetApiKey(key, stored, writeOk) ==
    IF Truthy(key) THEN (IF writeOk THEN Some(key) ELSE stored) ELSE None

\* StorageService.getRaw
GetRaw(stored, available, defaultValue) ==
    IF ~available THEN defaultValue
    ELSE IF stored /= None /\ Truthy(stored[1]) THEN stored[1] ELSE defaultValue

\* StorageService.getApiKey
StorageGetApiKey(stored, available) ==
    LET key == GetRaw(stored, available, Str_empty)
    IN  IF Truthy(key) THEN Some(key) ELSE None

\* StorageService.setApiKey writing with set (JSON.stringify) instead of setRaw
StorageSetApiKey_Json(key, stored, available, writeOk) ==
    IF Truthy(key)
    THEN (IF available /\ writeOk THEN Some(<<"\"">> \o key \o <<"\"">>) ELSE stored)
    ELSE (IF available THEN None ELSE stored)

\* StorageService.setApiKey: the stored entry afterwards
StorageSetApiKey(key, stored, available, writeOk) ==
    IF Truthy(key)
    THEN (IF available /\ writeOk THEN Some(key) ELSE stored)
    ELSE (IF available THEN None ELSE stored)

\* the credential sendQuery and openSettingsModal read
UiGetApiKey(stored) == QueryHeader(stored)

\* apiService.setApiKey(k)
ApiSetApiKeyStep(k, writeOk) ==
    /\ lsApiKey' = ApiSetApiKey(k, lsApiKey, writeOk)
    /\ UNCHANGED auxVars
    /\ lastOp' = Op("ApiService.setApiKey",
                    IF ~Truthy(k) THEN "removed"
                    ELSE IF writeOk THEN "stored" ELSE "threw")
    /\ UNCHANGED <<lsChat, isAvailable, rateVars, domVars, chatHistory, isProcessing,
                   pending, nextId, reloads, streak>>

ApiServiceSetApiKey == \E k \in KeyInputs, writeOk \in BOOLEAN : ApiSetApiKeyStep(k, writeOk)

\* storageService.setApiKey(k)
StorageSetApiKeyStep(k, writeOk) ==
    /\ lsApiKey' = StorageSetApiKey(k, lsApiKey, isAvailable, writeOk)
    /\ UNCHANGED auxVars
    /\ lastOp' = Op("StorageService.setApiKey",
                    IF ~isAvailable \/ (Truthy(k) /\ ~writeOk) THEN "failed"
                    ELSE IF Truthy(k) THEN "stored" ELSE "removed")
    /\ UNCHANGED <<lsChat, isAvailable, rateVars, domVars, chatHistory, isProcessing,
                   pending, nextId, reloads, streak>>

StorageServiceSetApiKey ==
    \E k \in KeyInputs, writeOk \in BOOLEAN : StorageSetApiKeyStep(k, writeOk)

\* one page load of the chat page: the handlers setupEventListeners wires,
\* the settling of the query fetch, and apiService.sendQuery
Next ==
    \/ ClickSend
    \/ PressEnter
    \/ Respond
    \/ TypeText
    \/ HandleQuickAction
    \/ ClearChat
    \/ SaveKey
    \/ ClearApiKey
    \/ DismissRateLimitPopup
    \/ ApiSendQuery

Spec == Init /\ [][Next]_vars

(***************************************************************************)
(* The credential entry of localStorage under the three code paths that    *)
(* use it, over page loads                                                 *)
(***************************************************************************)
NextCredential ==
    \/ SaveKey
    \/ ClearApiKey
    \/ ApiServiceSetApiKey
    \/ StorageServiceSetApiKey
    \/ Reload

SpecCredential == Init /\ [][NextCredential]_vars

(***************************************************************************)
(* The chat history over page loads.  The run starts in a page session in  *)
(* which PriorExchanges exchanges have been answered (as many quick         *)
(* actions, each sent and answered with 200), which leave two entries each *)
(* in chatHistory and in localStorage.                                     *)
(***************************************************************************)
InitChat ==
    /\ AuxInit
    /\ lsApiKey = None
    /\ isAvailable = TRUE
    /\ chatHistory = Exchanged(PriorExchanges)
    /\ lsChat = Some(SliceLast(Exchanged(PriorExchanges), MaxHistory))
    /\ nextId = PriorExchanges
    /\ lastOp = [op |-> "response", res |-> "ok", blocked |-> FALSE]
    /\ isProcessing = FALSE
    /\ isRateLimited = FALSE
    /\ consecutiveFailures = 0
    /\ inputValue = EmptyText
    /\ inputDisabled = FALSE
    /\ sendBtnDisabled = FALSE
    /\ popupActive = FALSE
    /\ pending = None
    /\ reloads = 0
    /\ streak = 0

ChatClickSend == ~sendBtnDisabled /\ SendMessage(PriorExchanges + MaxChatSends)

ChatPressEnter == ~inputDisabled /\ SendMessage(PriorExchanges + MaxChatSends)

NextChat ==
    \/ HandleQuickAction
    \/ ChatClickSend
    \/ ChatPressEnter
    \/ Respond
    \/ ClearChat
    \/ Reload

SpecChat == InitChat /\ [][NextChat]_vars

(***************************************************************************)
(* Bootstrap: startLoadingProcess, step by step                            *)
(***************************************************************************)
\* what the health endpoint may answer: no response at all, or a response
\* with a status, a body that is JSON or not, and a rag_initialized field
HealthOutcomes ==
    {[kind |-> "network", status |-> 0, parsable |-> FALSE, rag |-> FALSE]}
    \cup {[kind |-> "response", status |-> st, parsable |-> TRUE, rag |-> r] :
            st \in {200, 500}, r \in BOOLEAN}
    \cup {[kind |-> "response", status |-> st, parsable |-> FALSE, rag |-> FALSE] :
            st \in {200, 500}}

\* checkHealth: fetch and response.json() in a try; the status is not read
CheckHealth(o) ==
    IF o.kind = "network" \/ ~o.parsable
    THEN [success |-> FALSE, ragInitialized |-> FALSE]
    ELSE [success |-> TRUE, ragInitialized |-> o.rag]

\* updateLoadingStatus(step, state) for a non-empty state
UpdateLoadingStatus(b, step, state) ==
    IF b.hasStatusItems THEN [b EXCEPT !.status[step] = state] ELSE b

\* the code after the polling loop with step 3 made active while step 2
\* is left as it is
AfterLoop_SkipsModel(b) ==
    [UpdateLoadingStatus(b, "vectorStore", "active")
        EXCEPT !.pc = "vectorStore", !.progress = 70]

\* the code after the polling loop, up to await sleep(500)
AfterLoop(b) ==
    [UpdateLoadingStatus(UpdateLoadingStatus(b, "model", "completed"),
                         "vectorStore", "active")
        EXCEPT !.pc = "vectorStore", !.progress = 70]

\* the classes the elapsed time can be in when an await ends
Later(b) == {e \in ElapsedClasses : e >= b.elapsed}

\* the first checkHealth settles
FirstHealth(o, e) ==
    /\ boot.pc = "health"
    /\ e \in Later(boot)
    /\ LET healthResult == CheckHealth(o)
           b0 == [boot EXCEPT !.elapsed = e, !.checks = @ + 1, !.first = Some(o),
                              !.sawRag = healthResult.ragInitialized, !.op = "health"]
       IN  IF ~healthResult.success
           THEN boot' = [UpdateLoadingStatus(b0, "server", "error")
                            EXCEPT !.retryBtnShown = TRUE, !.pc = "error"]
           ELSE LET b1 == [UpdateLoadingStatus(
                               UpdateLoadingStatus(b0, "server", "completed"),
                               "model", "active")
                             EXCEPT !.ragFirst = healthResult.ragInitialized,
                                    !.progress = 30]
                IN  boot' = IF ~b1.ragFirst /\ b1.attempts < maxAttempts
                            THEN [b1 EXCEPT !.pc = "sleep"]
                            ELSE AfterLoop(b1)
    /\ UNCHANGED <<uiVars, http, stg, fn, touch>>


\* await sleep(2000) ends and the poll's checkHealth is issued
BootSleepDone ==
    /\ boot.pc = "sleep"
    /\ \E e \in Later(boot) : boot' = [boot EXCEPT !.pc = "poll", !.elapsed = e, !.op = "sleep"]
    /\ UNCHANGED <<uiVars, http, stg, fn, touch>>

\* the poll's checkHealth settles: the rest of the loop body and the test
\* of the loop.  The percent shown is Math.round of
\* min(30 + attempts / maxAttempts * 40, 70).
PollHealth(o, e) ==
    /\ boot.pc = "poll"
    /\ e \in Later(boot)
    /\ LET pollResult == CheckHealth(o)
           b0 == [boot EXCEPT !.elapsed = e, !.checks = @ + 1, !.op = "poll",
                              !.sawRag = @ \/ pollResult.ragInitialized]
       IN  IF pollResult.ragInitialized
           THEN boot' = AfterLoop(b0)
           ELSE LET b1 == [b0 EXCEPT !.attempts = @ + 1,
                                     !.warningVisible =
                                         @ \/ (e >= LOADING_WARNING_TIME)]
                IN  IF e >= LOADING_TIMEOUT_TIME
                    THEN boot' = [b1 EXCEPT !.timeoutPopupActive = TRUE,
                                            !.timeouts = @ + 1, !.pc = "timedOut"]
                    ELSE LET raw2 == 2 * 30 * maxAttempts + 2 * 40 * b1.attempts
                             shown == (raw2 + maxAttempts) \div (2 * maxAttempts)
                             b2 == [b1 EXCEPT !.progress =
                                                  IF shown < 70 THEN shown ELSE 70]
                         IN  boot' = IF ~b2.ragFirst /\ b2.attempts < maxAttempts
                                     THEN [b2 EXCEPT !.pc = "sleep"]
                                     ELSE AfterLoop(b2)
    /\ UNCHANGED <<uiVars, http, stg, fn, touch>>


\* await sleep(500) ends: step 3 completed, step 4 active
BootVectorStoreDone ==
    /\ boot.pc = "vectorStore"
    /\ boot' = [UpdateLoadingStatus(UpdateLoadingStatus(boot, "vectorStore", "completed"),
                                    "ready", "active")
                    EXCEPT !.pc = "readyStep", !.progress = 90, !.op = "step"]
    /\ UNCHANGED <<uiVars, http, stg, fn, touch>>

\* await sleep(300) ends: step 4 completed, loadSuggestions is awaited
BootReadyDone ==
    /\ boot.pc = "readyStep"
    /\ boot' = [UpdateLoadingStatus(boot, "ready", "completed")
                    EXCEPT !.pc = "suggestions", !.progress = 100, !.op = "step"]
    /\ UNCHANGED <<uiVars, http, stg, fn, touch>>

\* hideLoadingOverlay
HideLoadingOverlay(b) ==
    [b EXCEPT !.timers = IF b.intervalSet THEN @ - 1 ELSE @,
              !.intervalSet = FALSE,
              !.overlayHidden = TRUE]

\* loadSuggestions (which catches its errors) and sleep(500) end:
\* hideLoadingOverlay, startLoadingProcess returns
BootSuggestionsDone ==
    /\ boot.pc = "suggestions"
    /\ boot' = [HideLoadingOverlay(boot) EXCEPT !.pc = "ready", !.op = "step"]
    /\ UNCHANGED <<uiVars, http, stg, fn, touch>>

\* dismissTimeoutPopup
DismissTimeoutPopup ==
    /\ boot.timeoutPopupActive
    /\ boot' = [boot EXCEPT !.timeoutPopupActive = FALSE, !.op = "dismiss"]
    /\ UNCHANGED <<uiVars, http, stg, fn, touch>>

\* retryLoading.  updateLoadingStatus(step, '') removes the three classes
\* and calls classList.add(''), which throws a SyntaxError when the item
\* exists: the forEach stops at 'server' and startLoadingProcess is not
\* called.
RetryLoadingEffect(b) ==
    LET b0 == [b EXCEPT !.timeoutPopupActive = FALSE,
                        !.overlayHidden = FALSE,
                        !.warningVisible = FALSE,
                        !.retryBtnShown = FALSE]
    IN  IF b.hasStatusItems
        THEN [b0 EXCEPT !.status["server"] = "", !.op = "retryThrew"]
        ELSE StartLoadingProcess(b0)

\* a click on loadingRetryBtn or on timeoutRetryBtn
RetryLoading ==
    /\ boot.retryBtnShown \/ boot.timeoutPopupActive
    /\ boot.runs < MaxRuns
    /\ boot' = RetryLoadingEffect(boot)
    /\ UNCHANGED <<uiVars, http, stg, fn, touch>>

\* initializeApp has called startLoadingProcess, which awaits checkHealth
InitBootstrap ==
    /\ \E has \in BOOLEAN : boot = StartLoadingProcess(BootBlank(has))
    /\ http = HttpIdle
    /\ touch = TouchIdle(TRUE)
    /\ stg = StorageConstructed(TRUE)
    /\ fn = FnCold(TRUE)
    /\ lsApiKey = None
    /\ lsChat = None
    /\ isAvailable = TRUE
    /\ chatHistory = <<>>
    /\ isProcessing = FALSE
    /\ isRateLimited = FALSE
    /\ consecutiveFailures = 0
    /\ inputValue = EmptyText
    /\ inputDisabled = FALSE
    /\ sendBtnDisabled = TRUE
    /\ popupActive = FALSE
    /\ pending = None
    /\ nextId = 0
    /\ reloads = 0
    /\ streak = 0
    /\ lastOp = [op |-> "init", res |-> "", blocked |-> FALSE]

NextBootstrap ==
    \/ \E o \in HealthOutcomes, e \in ElapsedClasses : FirstHealth(o, e)
    \/ BootSleepDone
    \/ \E o \in HealthOutcomes, e \in ElapsedClasses : PollHealth(o, e)
    \/ BootVectorStoreDone
    \/ BootReadyDone
    \/ BootSuggestionsDone
    \/ DismissTimeoutPopup
    \/ RetryLoading

SpecBootstrap == InitBootstrap /\ [][NextBootstrap]_vars

(***************************************************************************)
(* ApiService.request and the requests of the page                         *)
(*                                                                         *)
(* A JavaScript headers object is the sequence of its <<name, value>>      *)
(* pairs in insertion order.  fetch builds a Headers list from it: names   *)
(* are compared without regard to case and the values given under one name *)
(* are combined, in order.  The record http:                               *)
(*   pc         "idle", "fetch" (fetch awaited), "body" (response.json()   *)
(*              of an ok response awaited), "errBody" (response.json() of  *)
(*              a response that is not ok awaited), "settled"              *)
(*   timerArmed the setTimeout that aborts the call is pending             *)
(*   cause      what the network did (history), result: how the call       *)
(*              settled, sent: the request last put on the network         *)
(***************************************************************************)
Endpoints == {"query", "stats", "suggestions", "health", "clearCache"}

HttpStatuses == {200, 401, 403, 429, 500}

\* String.prototype.toLowerCase on the header names that occur
Lower(name) == IF name = "X-Groq-Api-Key" THEN "x-groq-api-key"
               ELSE IF name = "Content-Type" THEN "content-type"
               ELSE name

\* the headers a caller of request may pass in options.headers
CallerHeaders ==
    {<<>>, <<<<"X-Groq-Api-Key", Str_other>>>>, <<<<"x-groq-api-key", Str_other>>>>,
     <<<<"x-trace", Str_other>>>>}

\* obj[name] = value on a headers object
SetHeader(obj, name, value) ==
    IF \E i \in 1..Len(obj) : obj[i][1] = name
    THEN [i \in 1..Len(obj) |-> IF obj[i][1] = name THEN <<name, value>> ELSE obj[i]]
    ELSE Append(obj, <<name, value>>)

RECURSIVE Spread(_, _)
\* {...obj, ...more}
Spread(obj, more) ==
    IF more = <<>> THEN obj
    ELSE Spread(SetHeader(obj, Head(more)[1], Head(more)[2]), Tail(more))

\* buildHeaders that lets the caller's headers win over the stored key
BuildHeaders_CallerWins(additionalHeaders, stored) ==
    LET apiKey == ApiGetApiKey(stored)
        own == IF apiKey /= None /\ Truthy(apiKey[1])
               THEN <<<<"Content-Type", <<"json">>>>, <<"X-Groq-Api-Key", apiKey[1]>>>>
               ELSE <<<<"Content-Type", <<"json">>>>>>
    IN  Spread(own, additionalHeaders)

\* ApiService.buildHeaders
BuildHeaders(additionalHeaders, stored) ==
    LET headers == Spread(<<<<"Content-Type", <<"json">>>>>>, additionalHeaders)
        apiKey == ApiGetApiKey(stored)
    IN  IF apiKey /= None /\ Truthy(apiKey[1])
        THEN SetHeader(headers, "X-Groq-Api-Key", apiKey[1])
        ELSE headers

\* the headers of the page's own requests: sendQuery builds them with the
\* saved key, checkHealth, loadStats and loadSuggestions pass none
PageHeaders(endpoint, stored) ==
    IF endpoint = "query"
    THEN (IF stored /= None /\ Truthy(stored[1])
          THEN <<<<"Content-Type", <<"json">>>>, <<"X-Groq-Api-Key", stored[1]>>>>
          ELSE <<<<"Content-Type", <<"json">>>>>>)
    ELSE <<>>

RECURSIVE WireValues(_, _)
\* the values fetch sends under the header name lname, in order
WireValues(obj, lname) ==
    IF obj = <<>> THEN <<>>
    ELSE (IF Lower(Head(obj)[1]) = lname THEN <<Head(obj)[2]>> ELSE <<>>)
         \o WireValues(Tail(obj), lname)

\* the Error thrown for a response that is not ok, without its status
HttpError_NoStatus(status, errorData) ==
    [kind |-> "error", name |-> "Error", status |-> 0,
     message |-> IF errorData.message THEN <<"body">> ELSE <<"HTTP", status>>]

\* the Error thrown for a response that is not ok:
\* errorData.message || `HTTP ${response.status}`, error.status
HttpError(status, errorData) ==
    [kind |-> "error", name |-> "Error", status |-> status,
     message |-> IF errorData.message THEN <<"body">> ELSE <<"HTTP", status>>]

\* the Error thrown when the fetch was aborted
TimeoutError ==
    [kind |-> "error", name |-> "Error", status |-> 408, message |-> <<"Request timeout">>]

\* an exception of fetch or of response.json(), rethrown as it is
Rethrown(name) == [kind |-> "error", name |-> name, status |-> 0, message |-> <<name>>]

\* request(endpoint, options) up to await fetch
HttpRequest ==
    /\ http.pc \in {"idle", "settled"}
    /\ http.calls < MaxCalls
    /\ \E endpoint \in Endpoints, h \in CallerHeaders :
        http' = [http EXCEPT !.pc = "fetch", !.timerArmed = TRUE, !.cause = None,
                             !.result = None, !.calls = @ + 1, !.op = "request",
                             !.sent = Some([via |-> "ApiService", endpoint |-> endpoint,
                                            caller |-> h,
                                            headers |-> BuildHeaders(h, lsApiKey)])]
    /\ UNCHANGED <<uiVars, boot, stg, fn, touch>>

\* fetch resolves with a response: clearTimeout, then response.json() is
\* awaited on one branch or the other
HttpFetchResolves ==
    /\ http.pc = "fetch"
    /\ \E st \in HttpStatuses :
        http' = [http EXCEPT !.timerArmed = FALSE, !.op = "response",
                             !.cause = Some([kind |-> "response", status |-> st,
                                             parsable |-> FALSE, message |-> FALSE]),
                             !.pc = IF st \in 200..299 THEN "body" ELSE "errBody"]
    /\ UNCHANGED <<uiVars, boot, stg, fn, touch>>

\* fetch rejects (no network, DNS, refused connection): the catch clears
\* the timer and rethrows
HttpFetchRejects ==
    /\ http.pc = "fetch"
    /\ http' = [http EXCEPT !.timerArmed = FALSE, !.pc = "settled", !.op = "rejected",
                            !.cause = Some([kind |-> "network", status |-> 0,
                                            parsable |-> FALSE, message |-> FALSE]),
                            !.result = Some(Rethrown("TypeError"))]
    /\ UNCHANGED <<uiVars, boot, stg, fn, touch>>

\* the timer fires: controller.abort() rejects the pending fetch with an
\* AbortError, which the catch turns into the timeout error
HttpTimerFires ==
    /\ http.timerArmed
    /\ http' = [http EXCEPT !.timerArmed = FALSE, !.op = "timer",
                            !.cause = IF http.pc = "fetch"
                                      THEN Some([kind |-> "timeout", status |-> 0,
                                                 parsable |-> FALSE, message |-> FALSE])
                                      ELSE @,
                            !.pc = IF @ = "fetch" THEN "settled" ELSE @,
                            !.result = IF http.pc = "fetch" THEN Some(TimeoutError) ELSE @]
    /\ UNCHANGED <<uiVars, boot, stg, fn, touch>>

\* response.json() settles: the body is JSON (with a message field or
\* not), is not JSON, or the connection fails while it is read
BodySettles(body) ==
    /\ http.pc \in {"body", "errBody"}
    /\ LET st == http.cause[1].status
           c == [kind |-> IF body = "dropped" /\ http.pc = "body" THEN "network"
                          ELSE "response",
                 status |-> st,
                 parsable |-> body \in {"json", "jsonMessage"},
                 message |-> body = "jsonMessage"]
           errorData == [message |-> body = "jsonMessage"]
       IN  http' = [http EXCEPT
                !.pc = "settled", !.op = "body", !.cause = Some(c),
                !.result =
                    IF http.pc = "errBody" THEN Some(HttpError(st, errorData))
                    ELSE IF body \in {"json", "jsonMessage"}
                         THEN Some([kind |-> "value", name |-> "", status |-> st,
                                    message |-> <<>>])
                    ELSE IF body = "notJson" THEN Some(Rethrown("SyntaxError"))
                    ELSE Some(Rethrown("TypeError"))]
    /\ UNCHANGED <<uiVars, boot, stg, fn, touch>>


\* a request the page makes itself: sendQuery, checkHealth, loadStats,
\* loadSuggestions
PageFetch ==
    /\ http.pc \in {"idle", "settled"}
    /\ \E endpoint \in Endpoints \ {"clearCache"} :
        http' = [http EXCEPT !.op = "pageFetch",
                             !.sent = Some([via |-> "page", endpoint |-> endpoint,
                                            caller |-> <<>>,
                                            headers |-> PageHeaders(endpoint, lsApiKey)])]
    /\ UNCHANGED <<uiVars, boot, stg, fn, touch>>

NextHttp ==
    \/ HttpRequest
    \/ HttpFetchResolves
    \/ HttpFetchRejects
    \/ HttpTimerFires
    \/ \E body \in {"json", "jsonMessage", "notJson", "dropped"} : BodySettles(body)
    \/ PageFetch
    \/ ApiServiceSetApiKey

\* the page is loaded, its localStorage empty and available
InitHttp == Init /\ isAvailable /\ sendBtnDisabled

SpecHttp == InitHttp /\ [][NextHttp]_vars

(***************************************************************************)
(* StorageService over localStorage                                        *)
(*                                                                         *)
(* JavaScript values are written as tokens: booleans "true" and "false",   *)
(* "null", "undefined", an array "arr", an object "obj", a date string     *)
(* "iso", a value JSON.stringify rejects "cyclic"; strings stand for       *)
(* themselves.  A call of localStorage that throws (access to the store    *)
(* denied after the page was loaded, quota exceeded) is the input fails.   *)
(* The record stg:                                                         *)
(*   isAvailable  what checkAvailability returned at construction          *)
(*   items        localStorage: None where the key is absent               *)
(*   last         the last operation: its name, whether it reads or writes *)
(*                ("void" for a helper that returns nothing), the default  *)
(*                of a read, whether it threw, what it returned, whether   *)
(*                the store was unavailable or the call of localStorage    *)
(*                failed, whether items changed (history)                  *)
(***************************************************************************)
\* the keys the page passes to the untyped operations
GenericKeys == {StorageKeys.THEME, StorageKeys.CHAT_HISTORY}

\* JSON.stringify: the text, None when it throws
JsonStringify(v) ==
    IF v = "arr" THEN Some("[]")
    ELSE IF v = "obj" THEN Some("{}")
    ELSE IF v = "iso" THEN Some("\"t\"")
    ELSE None

\* JSON.parse: the value, None when it throws
JsonParse(text) ==
    IF text = "[]" THEN Some("arr")
    ELSE IF text = "{}" THEN Some("obj")
    ELSE IF text = "\"t\"" THEN Some("iso")
    ELSE None

\* an operation returns ret and leaves localStorage as items
Returned(ret, items) == [threw |-> FALSE, ret |-> ret, items |-> items]

\* an exception of localStorage leaves the operation
Thrown(items) == [threw |-> TRUE, ret |-> "exception", items |-> items]

\* StorageService.set
AdapterSet(s, key, value, fails) ==
    IF ~s.isAvailable THEN Returned("false", s.items)
    ELSE IF JsonStringify(value) = None \/ fails THEN Returned("false", s.items)
    ELSE Returned("true", [s.items EXCEPT ![key] = JsonStringify(value)])

\* StorageService.get
AdapterGet(s, key, defaultValue, fails) ==
    IF ~s.isAvailable THEN Returned(defaultValue, s.items)
    ELSE IF fails THEN Returned(defaultValue, s.items)
    ELSE IF s.items[key] = None THEN Returned(defaultValue, s.items)
    ELSE IF JsonParse(s.items[key][1]) = None THEN Returned(defaultValue, s.items)
    ELSE Returned(JsonParse(s.items[key][1])[1], s.items)

\* StorageService.getRaw
AdapterGetRaw(s, key, defaultValue, fails) ==
    IF ~s.isAvailable THEN Returned(defaultValue, s.items)
    ELSE IF fails THEN Thrown(s.items)
    ELSE IF s.items[key] = None \/ s.items[key] = Some("")
         THEN Returned(defaultValue, s.items)
    ELSE Returned(s.items[key][1], s.items)

\* StorageService.setRaw
AdapterSetRaw(s, key, value, fails) ==
    IF ~s.isAvailable THEN Returned("false", s.items)
    ELSE IF fails THEN Returned("false", s.items)
    ELSE Returned("true", [s.items EXCEPT ![key] = Some(value)])

\* StorageService.remove
AdapterRemove(s, key, fails) ==
    IF ~s.isAvailable THEN Returned("false", s.items)
    ELSE IF fails THEN Returned("false", s.items)
    ELSE Returned("true", [s.items EXCEPT ![key] = None])

\* StorageService.has
AdapterHas(s, key, fails) ==
    IF ~s.isAvailable THEN Returned("false", s.items)
    ELSE IF fails THEN Thrown(s.items)
    ELSE Returned(IF s.items[key] /= None THEN "true" ELSE "false", s.items)

\* StorageService.clear
AdapterClear(s, fails) ==
    IF ~s.isAvailable THEN Returned("false", s.items)
    ELSE IF fails THEN Returned("false", s.items)
    ELSE Returned("true", [k \in KeyNames |-> None])

\* a helper that returns nothing: what the operation it calls did, its
\* return value dropped
Void(r) == IF r.threw THEN r ELSE [r EXCEPT !.ret = "undefined"]

\* StorageService.getApiKey
AdapterGetApiKey(s, fails) ==
    LET r == AdapterGetRaw(s, StorageKeys.API_KEY, "", fails)
    IN  IF r.threw \/ r.ret /= "" THEN r ELSE [r EXCEPT !.ret = "null"]

\* StorageService.setApiKey
AdapterSetApiKey(s, key, fails) ==
    IF key /= "" THEN Void(AdapterSetRaw(s, StorageKeys.API_KEY, key, fails))
    ELSE Void(AdapterRemove(s, StorageKeys.API_KEY, fails))

\* StorageService.getLastVisit
AdapterGetLastVisit(s, fails) ==
    LET r == AdapterGet(s, StorageKeys.LAST_VISIT, "null", fails)
    IN  IF r.ret = "null" THEN r ELSE [r EXCEPT !.ret = "date"]

\* the page calls an operation of storageService and it ends as r
StorageCall(op, kind, def, fails, r) ==
    /\ stg' = [stg EXCEPT !.items = r.items,
                          !.last = [op |-> op, kind |-> kind, def |-> def,
                                    threw |-> r.threw, ret |-> r.ret,
                                    failed |-> ~stg.isAvailable \/ fails,
                                    changed |-> r.items /= stg.items]]
    /\ UNCHANGED <<uiVars, boot, http, fn, touch>>

\* storageService has been constructed; localStorage is empty
InitStorage ==
    /\ \E available \in BOOLEAN : stg = StorageConstructed(available)
    /\ boot = BootLoaded
    /\ http = HttpIdle
    /\ touch = TouchIdle(TRUE)
    /\ fn = FnCold(TRUE)
    /\ lsApiKey = None
    /\ lsChat = None
    /\ isAvailable = TRUE
    /\ chatHistory = <<>>
    /\ isProcessing = FALSE
    /\ isRateLimited = FALSE
    /\ consecutiveFailures = 0
    /\ inputValue = EmptyText
    /\ inputDisabled = FALSE
    /\ sendBtnDisabled = TRUE
    /\ popupActive = FALSE
    /\ pending = None
    /\ nextId = 0
    /\ reloads = 0
    /\ streak = 0
    /\ lastOp = [op |-> "init", res |-> "", blocked |-> FALSE]

\* the page calls one operation of storageService; the typed helpers
\* without logic of their own are the calls they forward to
NextStorage ==
    \/ \E key \in GenericKeys, value \in {"arr", "cyclic"}, fails \in BOOLEAN :
          StorageCall("set", "write", "", fails, AdapterSet(stg, key, value, fails))
    \/ \E key \in GenericKeys, def \in {"null", "arr"}, fails \in BOOLEAN :
          StorageCall("get", "read", def, fails, AdapterGet(stg, key, def, fails))
    \/ \E key \in GenericKeys, def \in {"", "light"}, fails \in BOOLEAN :
          StorageCall("getRaw", "read", def, fails, AdapterGetRaw(stg, key, def, fails))
    \/ \E key \in GenericKeys, value \in {"", "dark"}, fails \in BOOLEAN :
          StorageCall("setRaw", "write", "", fails, AdapterSetRaw(stg, key, value, fails))
    \/ \E key \in GenericKeys, fails \in BOOLEAN :
          StorageCall("remove", "write", "", fails, AdapterRemove(stg, key, fails))
    \/ \E key \in GenericKeys, fails \in BOOLEAN :
          StorageCall("has", "read", "false", fails, AdapterHas(stg, key, fails))
    \/ \E fails \in BOOLEAN :
          StorageCall("clear", "write", "", fails, AdapterClear(stg, fails))
    \/ \E fails \in BOOLEAN :
          StorageCall("getTheme", "read", "light", fails,
                      AdapterGetRaw(stg, StorageKeys.THEME, "light", fails))
    \/ \E theme \in {"light", "dark"}, fails \in BOOLEAN :
          StorageCall("setTheme", "void", "", fails,
                      Void(AdapterSetRaw(stg, StorageKeys.THEME, theme, fails)))
    \/ \E fails \in BOOLEAN :
          StorageCall("getApiKey", "read", "null", fails, AdapterGetApiKey(stg, fails))
    \/ \E key \in {"", "gsk_a"}, fails \in BOOLEAN :
          StorageCall("setApiKey", "void", "", fails, AdapterSetApiKey(stg, key, fails))
    \/ \E fails \in BOOLEAN :
          StorageCall("getChatHistory", "read", "arr", fails,
                      AdapterGet(stg, StorageKeys.CHAT_HISTORY, "arr", fails))
    \/ \E fails \in BOOLEAN :
          StorageCall("saveChatHistory", "void", "", fails,
                      Void(AdapterSet(stg, StorageKeys.CHAT_HISTORY, "arr", fails)))
    \/ \E fails \in BOOLEAN :
          StorageCall("clearChatHistory", "void", "", fails,
                      Void(AdapterRemove(stg, StorageKeys.CHAT_HISTORY, fails)))
    \/ \E fails \in BOOLEAN :
          StorageCall("getPreferences", "read", "obj", fails,
                      AdapterGet(stg, StorageKeys.USER_PREFERENCES, "obj", fails))
    \/ \E fails \in BOOLEAN :
          StorageCall("setPreferences", "void", "", fails,
                      Void(AdapterSet(stg, StorageKeys.USER_PREFERENCES, "obj", fails)))
    \/ \E fails \in BOOLEAN :
          StorageCall("updateLastVisit", "void", "", fails,
                      Void(AdapterSet(stg, StorageKeys.LAST_VISIT, "iso", fails)))
    \/ \E fails \in BOOLEAN :
          StorageCall("getLastVisit", "read", "null", fails, AdapterGetLastVisit(stg, fails))

SpecStorage == InitStorage /\ [][NextStorage]_vars

(***************************************************************************)
(* The serverless functions                                                *)
(*                                                                         *)
(* One warm instance of each function; the platform hands an instance one  *)
(* event at a time.  The record fn:                                        *)
(*   responseCache  the Map of the query function, its entries             *)
(*                  [key, response, timestamp] in insertion order          *)
(*   requestCount   the counter of the stats function                      *)
(*   upstream       calls of the Groq API made so far (history)            *)
(*   now            Date.now(), milliseconds since the cold start          *)
(*   envKey         whether the deployment sets GROQ_API_KEY               *)
(*   calls          events handled so far (history)                        *)
(*   req, resp      the last event (endpoint and method) and the response  *)
(*                  to it (history)                                        *)
(*   ev             what the query function read of the last event, if it  *)
(*                  was a POST to it: the body, whether the request had an *)
(*                  X-Groq-Api-Key header and how the Groq API would       *)
(*                  answer (history, kept by SpecCache only)               *)
(***************************************************************************)
\* the functions the repository deploys
Functions == {"query", "health", "stats", "suggestions"}

Methods == {"OPTIONS", "GET", "POST"}

\* event.body of the query function: absent, not JSON, or JSON with or
\* without a query, the query a value that is no string (an array holding
\* a text) or one of a few texts
EventBodies ==
    {[present |-> FALSE, json |-> FALSE, query |-> None, isString |-> FALSE],
     [present |-> TRUE, json |-> FALSE, query |-> None, isString |-> FALSE],
     [present |-> TRUE, json |-> TRUE, query |-> None, isString |-> FALSE],
     [present |-> TRUE, json |-> TRUE, query |-> Some(<<"v">>), isString |-> FALSE]}
    \cup {[present |-> TRUE, json |-> TRUE, query |-> Some(q), isString |-> TRUE] :
              q \in {<<>>, <<" ">>, <<"v">>, <<" ", "V", " ">>, <<"f">>}}

\* how a call of the Groq API ends: a completion with content, one with
\* empty content, a 200 whose JSON has no choices, status 429, any other
\* failure
GroqOutcomes == {"content", "empty", "nochoices", "429", "failed"}

\* String.prototype.toLowerCase
ToLowerCase(s) ==
    [i \in 1..Len(s) |-> IF s[i] = "V" THEN "v" ELSE IF s[i] = "F" THEN "f" ELSE s[i]]

getCacheKey(query) == <<"query_">> \o Trim(ToLowerCase(query))

\* the body '' of a preflight response
EmptyBody == [empty |-> TRUE]

\* JSON.stringify of a response object
JsonBody(fields) == [empty |-> FALSE, json |-> fields]

\* the headers every response of a function carries
CorsHeaders(allowHeaders, allowMethods) ==
    [origin |-> "*", allowHeaders |-> allowHeaders, allowMethods |-> allowMethods,
     contentType |-> "application/json"]

Response(statusCode, headers, body) ==
    [statusCode |-> statusCode, headers |-> headers, body |-> body]

\* a get that answers with the first entry of the Map whatever the key
CacheGet_First(cache, key) == IF cache /= <<>> THEN Some(cache[1]) ELSE None

\* Map.prototype.get
CacheGet(cache, key) ==
    IF \E i \in 1..Len(cache) : cache[i].key = key
    THEN Some(cache[CHOOSE i \in 1..Len(cache) : cache[i].key = key])
    ELSE None

\* Map.prototype.set: an entry already present keeps its place
CacheSet(cache, entry) ==
    IF \E i \in 1..Len(cache) : cache[i].key = entry.key
    THEN [i \in 1..Len(cache) |-> IF cache[i].key = entry.key THEN entry ELSE cache[i]]
    ELSE Append(cache, entry)

\* no clean-up after a set
CacheCleanUp_Never(cache) == cache

\* the clean-up after a set: above CacheLimit entries the first key of the
\* Map is deleted
CacheCleanUp(cache) == IF Len(cache) > CacheLimit THEN Tail(cache) ELSE cache

\* the cache after the query 'v' and then n further queries, each with a
\* text of its own, were answered at the time of the cold start
\* (every insert above CacheLimit entries drops the first one)
Prefilled(n) ==
    LET all == [i \in 1..(n + 1) |->
                   [key |-> getCacheKey(IF i = 1 THEN <<"v">> ELSE <<ToString(i - 1)>>),
                    response |-> "answer", timestamp |-> 0]]
    IN  IF n + 1 > CacheLimit THEN SubSeq(all, n + 2 - CacheLimit, n + 1) ELSE all

\* the functions once PriorEntries + 1 queries have been answered; calls
\* counts them as one event
FnWarm(envKey) ==
    [FnCold(envKey) EXCEPT !.responseCache = Prefilled(PriorEntries),
                           !.upstream = PriorEntries + 1, !.calls = 1]

\* what a handler leaves: the state of the functions and its response
Handled(f, resp) == [fn |-> f, resp |-> resp]

\* the catch of the query function
QueryCatch(f, headers, status) ==
    IF status = 429
    THEN Handled(f, Response(429, headers,
                    JsonBody([status |-> "error", rate_limited |-> TRUE])))
    ELSE Handled(f, Response(500, headers, JsonBody([status |-> "error"])))

\* the query function after its checks of the event: cache, then Groq
QueryAnswer(f, headers, query, groq) ==
    LET cacheKey == getCacheKey(query)
        cached == CacheGet(f.responseCache, cacheKey)
        called == [f EXCEPT !.upstream = f.upstream + 1]
        message == IF groq = "content" THEN "answer" ELSE "No response generated"
        entry == [key |-> cacheKey, response |-> message, timestamp |-> f.now]
    IN  IF cached /= None /\ f.now - cached[1].timestamp < CACHE_TTL
        THEN Handled(f, Response(200, headers,
                 JsonBody([status |-> "success", response |-> cached[1].response,
                           cached |-> TRUE])))
        ELSE IF groq = "429" THEN QueryCatch(called, headers, 429)
        ELSE IF groq \in {"failed", "nochoices"} THEN QueryCatch(called, headers, 0)
        ELSE Handled([called EXCEPT
                         !.responseCache = CacheCleanUp(CacheSet(f.responseCache, entry))],
                     Response(200, headers,
                         JsonBody([status |-> "success", response |-> message,
                                   cached |-> FALSE])))

\* the query function consulting its cache before it looks for a credential
QueryHandler_CacheFirst(f, event, groq) ==
    LET headers == CorsHeaders("Content-Type, X-Groq-Api-Key", "POST, OPTIONS")
        valid == event.body.query /= None /\ event.body.isString
                 /\ Trim(event.body.query[1]) /= <<>>
        cached == IF valid
                  THEN CacheGet(f.responseCache, getCacheKey(event.body.query[1]))
                  ELSE None
    IN  IF event.httpMethod = "OPTIONS" THEN Handled(f, Response(200, headers, EmptyBody))
        ELSE IF event.httpMethod /= "POST"
        THEN Handled(f, Response(405, headers, JsonBody([status |-> "error"])))
        ELSE IF event.body.present /\ ~event.body.json THEN QueryCatch(f, headers, 0)
        ELSE IF ~valid
        THEN Handled(f, Response(400, headers, JsonBody([status |-> "error"])))
        ELSE IF cached /= None /\ f.now - cached[1].timestamp < CACHE_TTL
        THEN QueryAnswer(f, headers, event.body.query[1], groq)
        ELSE IF ~event.headerKey /\ ~f.envKey
        THEN Handled(f, Response(401, headers, JsonBody([status |-> "error"])))
        ELSE QueryAnswer(f, headers, event.body.query[1], groq)

\* the handler of the query function
QueryHandler(f, event, groq) ==
    LET headers == CorsHeaders("Content-Type, X-Groq-Api-Key", "POST, OPTIONS")
    IN  IF event.httpMethod = "OPTIONS" THEN Handled(f, Response(200, headers, EmptyBody))
        ELSE IF event.httpMethod /= "POST"
        THEN Handled(f, Response(405, headers, JsonBody([status |-> "error"])))
        ELSE IF event.body.present /\ ~event.body.json THEN QueryCatch(f, headers, 0)
        ELSE IF event.body.query = None \/ ~event.body.isString
                \/ Trim(event.body.query[1]) = <<>>
        THEN Handled(f, Response(400, headers, JsonBody([status |-> "error"])))
        ELSE IF ~event.headerKey /\ ~f.envKey
        THEN Handled(f, Response(401, headers, JsonBody([status |-> "error"])))
        ELSE QueryAnswer(f, headers, event.body.query[1], groq)

\* the handler of the health function
HealthHandler(f, event) ==
    LET headers == CorsHeaders("Content-Type", "GET, OPTIONS")
    IN  IF event.httpMethod = "OPTIONS" THEN Handled(f, Response(200, headers, EmptyBody))
        ELSE Handled(f, Response(200, headers,
                 JsonBody([status |-> "healthy", rag_initialized |-> TRUE,
                           groq_api |-> f.envKey])))

\* the stats function counting the event before it looks at the method
StatsHandler_CountsFirst(f, event) ==
    LET headers == CorsHeaders("Content-Type", "GET, OPTIONS")
        counted == [f EXCEPT !.requestCount = f.requestCount + 1]
    IN  IF event.httpMethod = "OPTIONS"
        THEN Handled(counted, Response(200, headers, EmptyBody))
        ELSE Handled(counted, Response(200, headers,
                 JsonBody([status |-> "success", total_queries |-> counted.requestCount])))

\* the handler of the stats function
StatsHandler(f, event) ==
    LET headers == CorsHeaders("Content-Type", "GET, OPTIONS")
        counted == [f EXCEPT !.requestCount = f.requestCount + 1]
    IN  IF event.httpMethod = "OPTIONS" THEN Handled(f, Response(200, headers, EmptyBody))
        ELSE Handled(counted, Response(200, headers,
                 JsonBody([status |-> "success", total_queries |-> counted.requestCount])))

\* the handler of the suggestions function
SuggestionsHandler(f, event) ==
    LET headers == CorsHeaders("Content-Type", "GET, OPTIONS")
        asked == IF event.count = None THEN 6 ELSE event.count[1]
        count == IF asked < SuggestionsLength THEN asked ELSE SuggestionsLength
    IN  IF event.httpMethod = "OPTIONS" THEN Handled(f, Response(200, headers, EmptyBody))
        ELSE Handled(f, Response(200, headers,
                 JsonBody([status |-> "success", selected |-> count,
                           total_available |-> SuggestionsLength])))

\* /api/clear-cache is redirected to a function named clear-cache; the
\* repository has none, and the platform answers that it found nothing
NoFunction(f) ==
    Handled(f, Response(404, [origin |-> ""], [empty |-> FALSE, json |-> [status |-> "not found"]]))

\* an event has been handled; read is what the handler read of it
Invoked(endpoint, method, read, h) ==
    /\ fn.calls < MaxInvocations
    /\ fn' = [h.fn EXCEPT !.calls = fn.calls + 1,
                          !.req = Some([endpoint |-> endpoint, method |-> method]),
                          !.ev = read,
                          !.resp = Some(h.resp)]
    /\ UNCHANGED <<uiVars, boot, http, stg, touch>>

\* half of CACHE_TTL goes by
ClockAdvances ==
    /\ fn.now < MaxTicks * (CACHE_TTL \div 2)
    /\ fn' = [fn EXCEPT !.now = fn.now + CACHE_TTL \div 2]
    /\ UNCHANGED <<uiVars, boot, http, stg, touch>>

\* the functions have been deployed
InitFunctions ==
    /\ \E envKey \in BOOLEAN : fn = FnCold(envKey)
    /\ boot = BootLoaded
    /\ http = HttpIdle
    /\ touch = TouchIdle(TRUE)
    /\ stg = StorageConstructed(TRUE)
    /\ lsApiKey = None
    /\ lsChat = None
    /\ isAvailable = TRUE
    /\ chatHistory = <<>>
    /\ isProcessing = FALSE
    /\ isRateLimited = FALSE
    /\ consecutiveFailures = 0
    /\ inputValue = EmptyText
    /\ inputDisabled = FALSE
    /\ sendBtnDisabled = TRUE
    /\ popupActive = FALSE
    /\ pending = None
    /\ nextId = 0
    /\ reloads = 0
    /\ streak = 0
    /\ lastOp = [op |-> "init", res |-> "", blocked |-> FALSE]

\* an event reaches one of the endpoints, or time goes by
NextFunctions ==
    \/ \E m \in Methods, b \in EventBodies, k \in BOOLEAN, groq \in GroqOutcomes :
          Invoked("query", m, None,
                  QueryHandler(fn, [httpMethod |-> m, body |-> b, headerKey |-> k], groq))
    \/ \E m \in Methods :
          Invoked("health", m, None, HealthHandler(fn, [httpMethod |-> m]))
    \/ \E m \in Methods :
          Invoked("stats", m, None, StatsHandler(fn, [httpMethod |-> m]))
    \/ \E m \in Methods, c \in {None, Some(3), Some(20)} :
          Invoked("suggestions", m, None,
                  SuggestionsHandler(fn, [httpMethod |-> m, count |-> c]))
    \/ \E m \in Methods : Invoked("clear-cache", m, None, NoFunction(fn))
    \/ ClockAdvances

SpecFunctions == InitFunctions /\ [][NextFunctions]_vars

\* the query function with its cache all but full
InitCache ==
    /\ \E envKey \in BOOLEAN : fn = FnWarm(envKey)
    /\ boot = BootLoaded
    /\ http = HttpIdle
    /\ touch = TouchIdle(TRUE)
    /\ stg = StorageConstructed(TRUE)
    /\ lsApiKey = None
    /\ lsChat = None
    /\ isAvailable = TRUE
    /\ chatHistory = <<>>
    /\ isProcessing = FALSE
    /\ isRateLimited = FALSE
    /\ consecutiveFailures = 0
    /\ inputValue = EmptyText
    /\ inputDisabled = FALSE
    /\ sendBtnDisabled = TRUE
    /\ popupActive = FALSE
    /\ pending = None
    /\ nextId = 0
    /\ reloads = 0
    /\ streak = 0
    /\ lastOp = [op |-> "init", res |-> "", blocked |-> FALSE]

\* an event reaches the query function, or time goes by
NextCache ==
    \/ \E m \in Methods, b \in EventBodies, k \in BOOLEAN, groq \in GroqOutcomes :
          Invoked("query", m,
                  IF m = "POST"
                  THEN Some([body |-> b, headerKey |-> k, groq |-> groq])
                  ELSE None,
                  QueryHandler(fn, [httpMethod |-> m, body |-> b, headerKey |-> k], groq))
    \/ ClockAdvances

SpecCache == InitCache /\ [][NextCache]_vars

(***************************************************************************)
(* Properties                                                              *)
(***************************************************************************)
\* a step in which sendMessage hands a query to fetch
UiDispatch == pending' /= None /\ pending' /= pending

\* the outcome of a query that failed: no response, a response that is not
\* JSON, or a status outside 2xx
ClaimFailed(o) == o.kind = "network" \/ ~o.parsable \/ ~(o.status \in 200..299)

\* the validation of the settings dialog: after trimming, non-empty and
\* starting with 'gsk_'
ClaimValidKey(k) == Trim(k) /= <<>> /\ StartsWith(Trim(k), Prefix_gsk)

Persisted == IF lsChat = None THEN <<>> ELSE lsChat[1]

\* p holds the last min(Len(h), n) entries of h, in order
ClaimIsLastOf(p, h, n) ==
    /\ Len(p) = (IF Len(h) <= n THEN Len(h) ELSE n)
    /\ \A i \in 1..Len(p) : p[i] = h[Len(h) - Len(p) + i]

\* every way to read the credential yields v (StorageService only when it
\* found the store available)
ClaimReads(stored, v) ==
    /\ ApiGetApiKey(stored) = v
    /\ UiGetApiKey(stored) = v
    /\ isAvailable => StorageGetApiKey(stored, isAvailable) = v

\* C1 as stated: while isRateLimited holds no step issues a request to the
\* query endpoint, neither sendMessage nor apiService.sendQuery.
C1_NoQueryRequestWhileBlocked ==
    [][isRateLimited => ~(UiDispatch \/ ApiSendQuery)]_vars

\* C1 amended: while isRateLimited holds, sendMessage (send button, Enter
\* key) never hands a query to fetch: every attempt ends ignored or blocked.
C1_SendMessageRejectsWhileBlocked ==
    [][isRateLimited =>
        /\ ~UiDispatch
        /\ (lastOp'.op = "send" => lastOp'.res \in {"ignored", "blocked"})]_vars

C1_Witness ==
    isRateLimited /\ lastOp = [op |-> "send", res |-> "blocked", blocked |-> TRUE]

\* C2: after 3 or more queries in a row that failed (no answered query and
\* no reset in between) isRateLimited holds.
C2_ThreeFailuresBlock == streak >= MAX_CONSECUTIVE_FAILURES => isRateLimited

\* C3: a response with status 429 sets isRateLimited, whatever its body.
C3_Status429Blocks ==
    [][\A o \in Outcomes, w \in BOOLEAN :
        (o.kind = "response" /\ o.status = 429 /\ QueryResponse(o, w))
            => isRateLimited']_vars

\* C4: an answered query sets consecutiveFailures to 0, and isRateLimited
\* goes from true to false only in a saveApiKey that stored the credential
\* (the one caller of resetRateLimitState).
C4_BlockedUntilCredentialSaved ==
    [][/\ \A o \in Outcomes, w \in BOOLEAN :
            (~ClaimFailed(o) /\ QueryResponse(o, w)) => consecutiveFailures' = 0
       /\ (isRateLimited /\ ~isRateLimited') =>
            lastOp' = [op |-> "saveApiKey", res |-> "saved", blocked |-> TRUE]]_vars

C4_Witness == isRateLimited /\ lastOp.op = "clearApiKey" /\ lastOp.blocked

\* C5: every failed query adds exactly one to consecutiveFailures, and
\* changes isRateLimited only if it is a 429 or brings the counter to 3.
C5_FailureCountsOnce ==
    [][\A o \in Outcomes, w \in BOOLEAN :
        (ClaimFailed(o) /\ QueryResponse(o, w)) =>
            /\ consecutiveFailures' = consecutiveFailures + 1
            /\ (isRateLimited' /= isRateLimited =>
                    (o.status = 429
                     \/ consecutiveFailures' >= MAX_CONSECUTIVE_FAILURES))]_vars

\* C6: a query handed to fetch is non-empty after trimming and at most
\* 1000 characters long.
C6_SentTextWithinLimit ==
    pending /= None => (pending[1].len >= 1 /\ pending[1].len <= CharLimit)

\* C7: saveApiKey with an input that passes validation and a storage write
\* that succeeds stores the trimmed input and sets isRateLimited = false,
\* consecutiveFailures = 0; any other saveApiKey leaves the stored
\* credential, isRateLimited and consecutiveFailures as they were.
C7_SaveApiKeyEffect ==
    [][\A k \in KeyInputs, w \in BOOLEAN :
        SaveApiKey(k, w) =>
            IF ClaimValidKey(k) /\ w
            THEN /\ lsApiKey' = Some(Trim(k))
                 /\ ~isRateLimited'
                 /\ consecutiveFailures' = 0
            ELSE UNCHANGED <<lsApiKey, isRateLimited, consecutiveFailures>>]_vars

C7_Witness ==
    /\ lastOp = [op |-> "saveApiKey", res |-> "saved", blocked |-> TRUE]
    /\ ~isRateLimited
    /\ lsApiKey = Some(Str_gsk_a)

\* C8 as stated: whichever path saves a non-empty string k (the storage
\* write succeeding, the store available), every path reads back k.
C8_EveryPathRoundTrips ==
    [][\A k \in KeyInputs :
        (/\ Truthy(k)
         /\ \/ SaveApiKey(k, TRUE)
            \/ ApiSetApiKeyStep(k, TRUE)
            \/ (isAvailable /\ StorageSetApiKeyStep(k, TRUE)))
            => ClaimReads(lsApiKey', Some(k))]_vars

\* C8 amended: a non-empty k saved by ApiService.setApiKey or
\* StorageService.setApiKey is read back as k by every path; saveApiKey
\* stores the trimmed k if that starts with 'gsk_' and nothing otherwise;
\* after a clear every path reads null.
C8_RoundTripPerPath ==
    [][/\ \A k \in KeyInputs :
            /\ (Truthy(k) /\ ApiSetApiKeyStep(k, TRUE))
                    => ClaimReads(lsApiKey', Some(k))
            /\ (Truthy(k) /\ isAvailable /\ StorageSetApiKeyStep(k, TRUE))
                    => ClaimReads(lsApiKey', Some(k))
            /\ (ClaimValidKey(k) /\ SaveApiKey(k, TRUE))
                    => ClaimReads(lsApiKey', Some(Trim(k)))
            /\ (~ClaimValidKey(k) /\ SaveApiKey(k, TRUE)) => lsApiKey' = lsApiKey
            /\ (~Truthy(k)
                /\ (ApiSetApiKeyStep(k, TRUE) \/ (isAvailable /\ StorageSetApiKeyStep(k, TRUE))))
                    => ClaimReads(lsApiKey', None)
       /\ ClearApiKey => ClaimReads(lsApiKey', None)]_vars

C8_Witness ==
    /\ lastOp.op = "StorageService.setApiKey"
    /\ lastOp.res = "stored"
    /\ lsApiKey = Some(Str_padded)
    /\ ApiGetApiKey(lsApiKey) = StorageGetApiKey(lsApiKey, isAvailable)

\* C9 as stated, on the runs without a page load: the history, in memory
\* and in localStorage, holds at most 50 entries.
C9_HistoryAtMost50 ==
    reloads = 0 => (Len(chatHistory) <= MaxHistory /\ Len(Persisted) <= MaxHistory)

\* C9 amended: the history in localStorage holds at most 50 entries, and
\* right after an answered query whose save succeeded it holds the last 50
\* entries of chatHistory, in order.
C9_PersistedAtMost50 ==
    /\ Len(Persisted) <= MaxHistory
    /\ (lastOp.op = "response" /\ lastOp.res = "ok" /\ lsChat /= None) =>
            ClaimIsLastOf(Persisted, chatHistory, MaxHistory)

C9_Witness ==
    /\ reloads = 0
    /\ lastOp.op = "response"
    /\ lastOp.res = "ok"
    /\ Len(chatHistory) > MaxHistory
    /\ Len(Persisted) = MaxHistory

\* C10: the history holds no entry twice, keeps the order of insertion,
\* and after a page load equals what localStorage holds.
C10_HistoryPreservedAcrossReload ==
    /\ \A i, j \in 1..Len(chatHistory) : i /= j => chatHistory[i] /= chatHistory[j]
    /\ \A i \in 1..(Len(chatHistory) - 1) :
            \/ chatHistory[i].id < chatHistory[i + 1].id
            \/ /\ chatHistory[i].id = chatHistory[i + 1].id
               /\ chatHistory[i].sender = "user"
               /\ chatHistory[i + 1].sender = "bot"
    /\ lastOp.op = "reload" => chatHistory = Persisted

\* a bootstrap run has returned
ClaimEnded == boot.pc \in {"ready", "error", "timedOut"}

\* the polls that fit in LOADING_TIMEOUT_TIME at one per 2 seconds
ClaimPollCeiling == LOADING_TIMEOUT_TIME \div 2000

\* a health check that failed: no response, or a response with a status
\* outside 2xx
ClaimHealthFailed(o) == o.kind = "network" \/ ~(o.status \in 200..299)

\* C11: a run that got past the first health check and in which no health
\* response reported rag_initialized ends in TimedOut, with the timeout
\* popup shown once; no run shows it twice or polls more than ~900 times.
C11_NeverReadyBackendTimesOut ==
    /\ boot.timeouts <= 1
    /\ boot.checks <= ClaimPollCeiling + 1
    /\ (ClaimEnded /\ boot.pc /= "error" /\ ~boot.sawRag) =>
            (boot.pc = "timedOut" /\ boot.timeouts = 1)

\* C12: the bootstrap is past the model step (on its way to Ready, or
\* Ready with the overlay hidden) only if a health response of the run
\* reported rag_initialized.
C12_ReadyOnlyAfterRagInitialized ==
    boot.pc \in {"vectorStore", "readyStep", "suggestions", "ready"} => boot.sawRag

\* C13: a first health check that failed puts the run in Error, with the
\* server item marked error, the other items untouched and the retry button
\* shown, after exactly one health check; from Error only a new run started
\* by retry makes another health check.
C13_FailedFirstCheckIsTerminal ==
    [][/\ \A o \in HealthOutcomes, e \in ElapsedClasses :
            (ClaimHealthFailed(o) /\ FirstHealth(o, e)) =>
                /\ boot'.pc = "error"
                /\ boot'.retryBtnShown
                /\ boot'.checks = 1
                /\ boot'.hasStatusItems =>
                        /\ boot'.status["server"] = "error"
                        /\ \A st \in Steps \ {"server"} : boot'.status[st] = ""
       /\ (boot.pc = "error" /\ boot'.checks /= boot.checks) => boot'.op = "start"]_vars

\* C14: retryLoading starts a new run: checkHealth is awaited again, the
\* elapsed time and the attempts start from 0, and the warning, the retry
\* button and the timeout popup are hidden.
C14_RetryStartsFreshRun ==
    [][RetryLoading =>
        /\ boot'.pc = "health"
        /\ boot'.runs = boot.runs + 1
        /\ boot'.attempts = 0
        /\ boot'.elapsed = 0
        /\ boot'.checks = 0
        /\ ~boot'.warningVisible
        /\ ~boot'.retryBtnShown
        /\ ~boot'.timeoutPopupActive]_vars

\* C15: a call of request that has not settled has its abort timer pending
\* (so that it settles within the configured wait), a call that has settled
\* has none, and a call that the timer ended fails with status 408 and
\* 'Request timeout'.
C15_UnsettledCallIsTimed ==
    /\ http.pc \in {"fetch", "body", "errBody"} => http.timerArmed
    /\ http.pc = "settled" => ~http.timerArmed
    /\ (http.pc = "settled" /\ http.cause[1].kind = "timeout") =>
            (http.result[1].status = 408
             /\ http.result[1].message = <<"Request timeout">>)

\* the class a caller reads from the way request settled
ClaimClass(r) ==
    IF r.kind = "value" THEN "Success"
    ELSE IF r.status \in {401, 403} THEN "Unauthorized"
    ELSE IF r.status = 429 THEN "RateLimited"
    ELSE IF r.status = 408 /\ r.message = <<"Request timeout">> THEN "Timeout"
    ELSE IF r.status \in 400..599 THEN "ServerError"
    ELSE "NetworkError"

\* the class of what the network did
ClaimClassOfStatus(st) ==
    IF st \in 200..299 THEN "Success"
    ELSE IF st \in {401, 403} THEN "Unauthorized"
    ELSE IF st = 429 THEN "RateLimited"
    ELSE "ServerError"

\* a ServerError carries the status and the body's message, or the status
\* line when the body has none
ClaimServerErrorDetail(r, c) ==
    ClaimClass(r) = "ServerError" =>
        /\ r.status = c.status
        /\ r.message = (IF c.message THEN <<"body">> ELSE <<"HTTP", c.status>>)

ClaimStoredKey == IF lsApiKey /= None /\ lsApiKey[1] /= <<>> THEN <<lsApiKey[1]>> ELSE <<>>

\* the values the request last sent carries under X-Groq-Api-Key
ClaimCredentialSent(h) == WireValues(h.sent[1].headers, "x-groq-api-key")

C18_AdapterNeverThrows ==
    /\ ~stg.last.threw
    /\ stg.last.failed =>
        /\ stg.last.kind = "read" => stg.last.ret = stg.last.def
        /\ stg.last.kind = "write" => stg.last.ret = "false"
        /\ ~stg.last.changed

\* C19: at most one query of the page is in flight: a query is in flight
\* only while isProcessing holds, and a sendMessage that finds isProcessing
\* true returns without handing a query to fetch and without appending a
\* chat message, however clicks, Enter presses and responses interleave.
C19_OneQueryInFlight ==
    /\ [](pending /= None => isProcessing)
    /\ [][(isProcessing /\ lastOp'.op = "send") =>
            /\ lastOp'.res = "ignored"
            /\ ~UiDispatch
            /\ UNCHANGED <<pending, chatHistory, isProcessing, nextId>>]_vars

\* a send with a message to send was ignored while a query was in flight
C19_Witness ==
    /\ isProcessing
    /\ pending /= None
    /\ lastOp.op = "send"
    /\ lastOp.res = "ignored"
    /\ TrimText(inputValue).body > 0

\* the step handles an OPTIONS event sent to endpoint e
ClaimPreflight(e) ==
    /\ fn'.calls = fn.calls + 1
    /\ fn'.req = Some([endpoint |-> e, method |-> "OPTIONS"])

\* the step answers 200 with an empty body and permissive CORS headers and
\* leaves the cache, the counter and the upstream alone
ClaimPreflightAnswered ==
    /\ fn'.resp[1].statusCode = 200
    /\ fn'.resp[1].body = EmptyBody
    /\ fn'.resp[1].headers.origin = "*"
    /\ fn'.responseCache = fn.responseCache
    /\ fn'.requestCount = fn.requestCount
    /\ fn'.upstream = fn.upstream

\* C20 as stated: every endpoint, clear-cache included, answers an OPTIONS
\* preflight with 200, an empty body and permissive CORS headers, without
\* an upstream call and without a change of the cache or the counter.
C20_EveryEndpointAnswersPreflight ==
    [][\A e \in Functions \cup {"clear-cache"} :
            ClaimPreflight(e) => ClaimPreflightAnswered]_vars

\* C20, amended: each function the repository deploys (query, health,
\* stats, suggestions) answers an OPTIONS preflight with 200, an empty body
\* and permissive CORS headers, without an upstream call and without a
\* change of the cache or the counter.
C20_EveryFunctionAnswersPreflight ==
    [][\A e \in Functions : ClaimPreflight(e) => ClaimPreflightAnswered]_vars

\* a preflight of the stats function was answered after the functions had
\* counted a request, cached a response and called the upstream
C20_Witness ==
    /\ fn.req = Some([endpoint |-> "stats", method |-> "OPTIONS"])
    /\ fn.resp /= None
    /\ fn.resp[1].statusCode = 200
    /\ fn.requestCount > 0
    /\ fn.responseCache /= <<>>
    /\ fn.upstream > 0

\* the query of the event the query function handled last is a non-empty
\* string once trimmed
ClaimQueryGiven(e) ==
    e.body.query /= None /\ e.body.isString /\ Trim(e.body.query[1]) /= <<>>

\* the body of that event could be read: absent, or JSON
ClaimBodyRead(e) == ~e.body.present \/ e.body.json

\* the response is an answer taken from the cache
ClaimServedFromCache(r) == r.statusCode = 200 /\ r.body.json.cached

ClaimReachesCache ==
    /\ fn'.calls = fn.calls + 1
    /\ fn'.ev /= None
    /\ ClaimBodyRead(fn'.ev[1])
    /\ ClaimQueryGiven(fn'.ev[1])
    /\ (fn'.ev[1].headerKey \/ fn.envKey)

\* the entry the cache holds for the query of the step, if any
ClaimEntry ==
    LET text == Trim(ToLowerCase(fn'.ev[1].body.query[1]))
        at == {i \in 1..Len(fn.responseCache) :
                  fn.responseCache[i].key = <<"query_">> \o text}
    IN  IF at = {} THEN None ELSE Some(fn.responseCache[CHOOSE i \in at : TRUE])

\* C22: a request whose lower-cased, trimmed text matches a cache entry
\* written less than CACHE_TTL ago is answered with that entry's response
\* and cached = true, without an upstream call; an entry aged CACHE_TTL or
\* more is never served; a failed upstream call leaves the cache as it was.
C22_CacheServesFreshEntriesOnly ==
    [][ClaimReachesCache =>
        IF ClaimEntry /= None /\ fn.now - ClaimEntry[1].timestamp < CACHE_TTL
        THEN /\ ClaimServedFromCache(fn'.resp[1])
             /\ fn'.resp[1].body.json.response = ClaimEntry[1].response
             /\ fn'.upstream = fn.upstream
             /\ fn'.responseCache = fn.responseCache
        ELSE /\ ~ClaimServedFromCache(fn'.resp[1])
             /\ fn'.upstream = fn.upstream + 1
             /\ fn'.ev[1].groq \in {"429", "failed", "nochoices"} =>
                    fn'.responseCache = fn.responseCache]_vars

\* the query ' V ' was answered from the entry of 'v', and before that an
\* entry had expired and been written again
C22_Witness ==
    /\ fn.ev /= None
    /\ fn.ev[1].body.query = Some(<<" ", "V", " ">>)
    /\ fn.resp[1].statusCode = 200
    /\ fn.resp[1].body.json.cached
    /\ fn.upstream > PriorEntries + 1
    /\ fn.now >= CACHE_TTL

\* C23: when an insert makes the cache exceed CacheLimit entries, the
\* entry removed has the oldest timestamp of all cached entries, also when
\* an expired entry was written again earlier.
C23_EvictsOldestWritten ==
    [][(fn'.calls = fn.calls + 1 /\ Len(fn.responseCache) = CacheLimit) =>
        \A i \in 1..Len(fn.responseCache) :
            (\A j \in 1..Len(fn'.responseCache) :
                 fn'.responseCache[j].key /= fn.responseCache[i].key) =>
                \A j \in 1..Len(fn'.responseCache) :
                    fn.responseCache[i].timestamp <= fn'.responseCache[j].timestamp]_vars

\* C24: the response cache never holds more than CacheLimit entries.
C24_CacheAtMostLimit == Len(fn.responseCache) <= CacheLimit

\* an answer was inserted into the full cache: the cache is full again, it
\* holds the new entry and has lost the one of 'v'
C24_Witness ==
    /\ Len(fn.responseCache) = CacheLimit
    /\ fn.ev /= None
    /\ fn.resp[1].statusCode = 200
    /\ ~fn.resp[1].body.json.cached
    /\ CacheGet(fn.responseCache, getCacheKey(<<"f">>)) /= None
    /\ CacheGet(fn.responseCache, getCacheKey(<<"v">>)) = None

\* startLoadingProcess has not returned
ClaimRunning == boot.pc \notin {"none", "ready", "error", "timedOut"}

\* C25: within one bootstrap run the steps advance in the order server,
\* model, vectorStore, ready: a step is active or completed only when the
\* step before it is completed, a completed step stays completed, an
\* active step is not reset, and the percent shown never decreases and
\* stays within 0..100.
C25_StepsAdvanceInOrder ==
    [][ClaimRunning =>
        /\ \A pair \in {<<"server", "model">>, <<"model", "vectorStore">>,
                         <<"vectorStore", "ready">>} :
               boot'.status[pair[2]] /= "" => boot'.status[pair[1]] = "completed"
        /\ \A st \in Steps :
               /\ boot.status[st] = "completed" => boot'.status[st] = "completed"
               /\ boot.status[st] = "active" => boot'.status[st] /= ""
        /\ boot'.progress >= boot.progress
        /\ boot'.progress \in 0..100]_vars

\* a run that polled for the model has gone through all four steps
C25_Witness ==
    /\ boot.pc = "ready"
    /\ boot.hasStatusItems
    /\ boot.attempts > 0
    /\ boot.progress = 100
    /\ \A st \in Steps : boot.status[st] = "completed"

\* C30: at most one interval timer of the loading overlay is active at
\* any time, and none is active once a bootstrap run has ended (Ready,
\* Error or TimedOut).
C30_OneLoadingTimer ==
    /\ boot.timers <= 1
    /\ boot.pc \in {"ready", "error", "timedOut"} => boot.timers = 0

\* C27: whenever the rate-limit state is blocked, the send button and the
\* message input are disabled.
C27_BlockedDisablesInput == isRateLimited => (sendBtnDisabled /\ inputDisabled)

(***************************************************************************)
(* The send path under fairness.  The event loop runs every handler the    *)
(* page has queued, so the steps of the page itself are weakly fair; the   *)
(* settling of the fetch of sendQuery (Respond) is the backend's step and  *)
(* carries no fairness: sendQuery passes no signal and arms no timer       *)
(* (api.js 1817-1821), so nothing in the page settles that fetch.          *)
(***************************************************************************)
NextSendLive ==
    \/ ClickSend
    \/ PressEnter
    \/ Respond
    \/ TypeText
    \/ HandleQuickAction

SpecSendLive ==
    /\ Init
    /\ [][NextSendLive]_vars
    /\ WF_vars(ClickSend \/ PressEnter \/ TypeText \/ HandleQuickAction)

\* C26: every sendMessage that starts processing eventually finishes and
\* sets isProcessing back to false, also when the backend never answers the
\* query request.
C26_SendEventuallyFinishes == isProcessing ~> ~isProcessing

(***************************************************************************)
(* Touch events on an element with a GestureManager.  A touch event comes  *)
(* 100 or 600 ms after the previous event, and never later than a pending  *)
(* long-press timer is due: the timer's callback runs first.               *)
(***************************************************************************)
InitTouch ==
    /\ \E hasOnRefresh \in BOOLEAN : touch = TouchIdle(hasOnRefresh)
    /\ boot = BootLoaded
    /\ http = HttpIdle
    /\ stg = StorageConstructed(TRUE)
    /\ fn = FnCold(TRUE)
    /\ lsApiKey = None
    /\ lsChat = None
    /\ isAvailable = TRUE
    /\ chatHistory = <<>>
    /\ isProcessing = FALSE
    /\ isRateLimited = FALSE
    /\ consecutiveFailures = 0
    /\ inputValue = EmptyText
    /\ inputDisabled = FALSE
    /\ sendBtnDisabled = TRUE
    /\ popupActive = FALSE
    /\ pending = None
    /\ nextId = 0
    /\ reloads = 0
    /\ streak = 0
    /\ lastOp = [op |-> "init", res |-> "", blocked |-> FALSE]

NextGesture ==
    \* touchstart of the first or of a second finger
    \/ \E x \in {100, 110}, y \in {100, 110, 400}, w \in {100, 600} :
          LET s == touch.gm
              t == s.now + w
          IN  /\ s.events < MaxTouches
              /\ s.down < 2
              /\ IF s.armed = None THEN TRUE ELSE t <= s.armed[1]
              /\ touch' = [touch EXCEPT !.gm =
                     [HandleTouchStart(s, [x |-> x, y |-> y, touches |-> s.down + 1], t)
                      EXCEPT !.now = t, !.down = s.down + 1, !.events = s.events + 1,
                             !.ev = [type |-> "touchstart", x |-> x, y |-> y,
                                     tap |-> s.down = 0],
                             !.firstTap = IF s.down = 0 THEN @ ELSE None]]
              /\ UNCHANGED <<uiVars, boot, http, stg, fn>>
    \* touchmove (handleTouchMove): x, y is e.touches[0]
    \/ \E x \in {100, 110}, y \in {100, 110, 400}, atTop \in BOOLEAN :
          LET s == touch.gm
              t == s.now + 100
              deltaX == x - s.startX
              deltaY == y - s.startY
              tol == GESTURE_CONFIG.longPress.moveTolerance
              far == deltaX * deltaX + deltaY * deltaY > tol * tol
              s0 == IF far /\ s.longPressTimer
                    THEN [s EXCEPT !.longPressTimer = FALSE, !.armed = None]
                    ELSE s
          IN  /\ s.events < MaxTouches
              /\ s.down >= 1
              /\ IF s.armed = None THEN TRUE ELSE t <= s.armed[1]
              /\ touch' = [touch EXCEPT !.gm =
                     [s0 EXCEPT !.emitted = IF s.down = 2 /\ s.isPinching
                                            THEN {"pinchMove"}
                                            ELSE IF atTop /\ deltaY > 0
                                            THEN {"pullMove"}
                                            ELSE {},
                                !.now = t, !.events = s.events + 1,
                                !.ev = [type |-> "touchmove", x |-> x, y |-> y,
                                        tap |-> FALSE]]]
              /\ UNCHANGED <<uiVars, boot, http, stg, fn>>
    \* touchend: x, y is e.changedTouches[0]
    \/ \E x \in {100, 110}, y \in {100, 110, 400}, w \in {100, 600}, atTop \in BOOLEAN :
          LET s == touch.gm
              t == s.now + w
              tap == /\ s.ev.type = "touchstart"
                     /\ s.ev.tap
                     /\ s.ev.x = x
                     /\ s.ev.y = y
              second == /\ tap
                        /\ s.firstTap /= None
                        /\ t - s.firstTap[1].t < GESTURE_CONFIG.doubleTap.maxInterval
                        /\ (x - s.firstTap[1].x) * (x - s.firstTap[1].x)
                           + (y - s.firstTap[1].y) * (y - s.firstTap[1].y)
                           < GESTURE_CONFIG.doubleTap.maxDistance
                             * GESTURE_CONFIG.doubleTap.maxDistance
          IN  /\ s.events < MaxTouches
              /\ s.down >= 1
              /\ IF s.armed = None THEN TRUE ELSE t <= s.armed[1]
              /\ touch' = [touch EXCEPT !.gm =
                     [HandleTouchEnd(s, [x |-> x, y |-> y, atTop |-> atTop], t)
                      EXCEPT !.now = t, !.down = s.down - 1, !.events = s.events + 1,
                             !.ev = [type |-> "touchend", x |-> x, y |-> y, tap |-> tap],
                             !.firstTap = IF tap /\ ~second
                                          THEN Some([t |-> t, x |-> x, y |-> y])
                                          ELSE None]]
              /\ UNCHANGED <<uiVars, boot, http, stg, fn>>
    \* touchcancel (handleTouchCancel)
    \/ LET s == touch.gm
           t == s.now + 100
       IN  /\ s.events < MaxTouches
           /\ s.down >= 1
           /\ IF s.armed = None THEN TRUE ELSE t <= s.armed[1]
           /\ touch' = [touch EXCEPT !.gm =
                  [TouchStateReset(s)
                   EXCEPT !.armed = IF s.longPressTimer THEN None ELSE @,
                          !.emitted = {}, !.now = t, !.down = 0,
                          !.events = s.events + 1,
                          !.ev = [type |-> "touchcancel", x |-> 0, y |-> 0, tap |-> FALSE],
                          !.firstTap = None]]
           /\ UNCHANGED <<uiVars, boot, http, stg, fn>>
    \* the long-press timer of handleTouchStart fires
    \/ LET s == touch.gm
       IN  /\ s.armed /= None
           /\ touch' = [touch EXCEPT !.gm =
                  [s EXCEPT !.isLongPress = TRUE, !.emitted = {"longPress"},
                            !.armed = None, !.now = s.armed[1],
                            !.ev = [type |-> "longPress", x |-> s.startX,
                                    y |-> s.startY, tap |-> FALSE]]]
           /\ UNCHANGED <<uiVars, boot, http, stg, fn>>

SpecGesture == InitTouch /\ [][NextGesture]_vars

(***************************************************************************)
(* Touch events on a container with a PullToRefreshController, the         *)
(* settling of the promise of options.onRefresh and the reset timers       *)
(***************************************************************************)
NextPull ==
    \* touchstart
    \/ \E y \in {100, 200, 400}, atTop \in BOOLEAN :
          /\ touch' = [touch EXCEPT !.ptr = PullTouchStart(@, [y |-> y, atTop |-> atTop])]
          /\ UNCHANGED <<uiVars, boot, http, stg, fn>>
    \* touchmove
    \/ \E y \in {100, 200, 400}, atTop \in BOOLEAN :
          /\ touch' = [touch EXCEPT !.ptr = PullTouchMove(@, [y |-> y, atTop |-> atTop])]
          /\ UNCHANGED <<uiVars, boot, http, stg, fn>>
    \* touchend
    \/ \E throws \in BOOLEAN :
          /\ PullTouchEnd(touch.ptr, throws).refreshes <= MaxRefreshes
          /\ touch' = [touch EXCEPT !.ptr = PullTouchEnd(@, throws)]
          /\ UNCHANGED <<uiVars, boot, http, stg, fn>>
    \* the promise of options.onRefresh settles: finally arms the reset timer
    \/ /\ touch.ptr.promises > 0
       /\ touch' = [touch EXCEPT !.ptr.promises = @ - 1, !.ptr.timers = @ + 1,
                                 !.ptr.op = "settled"]
       /\ UNCHANGED <<uiVars, boot, http, stg, fn>>
    \* a reset timer fires: reset()
    \/ /\ touch.ptr.timers > 0
       /\ touch' = [touch EXCEPT !.ptr.timers = @ - 1, !.ptr.pullDistance = 0,
                                 !.ptr.isRefreshing = FALSE, !.ptr.op = "reset"]
       /\ UNCHANGED <<uiVars, boot, http, stg, fn>>

SpecPull == InitTouch /\ [][NextPull]_vars

\* the step is the touchend of a tap that ends less than maxInterval after,
\* and less than maxDistance from, the end of the tap before it
ClaimSecondTap ==
    /\ touch.gm.firstTap /= None
    /\ touch'.gm.events = touch.gm.events + 1
    /\ touch'.gm.ev.type = "touchend"
    /\ touch'.gm.ev.tap
    /\ touch'.gm.now - touch.gm.firstTap[1].t < GESTURE_CONFIG.doubleTap.maxInterval
    /\ (touch'.gm.ev.x - touch.gm.firstTap[1].x) * (touch'.gm.ev.x - touch.gm.firstTap[1].x)
       + (touch'.gm.ev.y - touch.gm.firstTap[1].y) * (touch'.gm.ev.y - touch.gm.firstTap[1].y)
       < GESTURE_CONFIG.doubleTap.maxDistance * GESTURE_CONFIG.doubleTap.maxDistance

\* C28: the touchend of the second of two single-finger taps that end less
\* than doubleTap.maxInterval apart and less than doubleTap.maxDistance apart
\* emits doubleTap.
C28_SecondTapEmitsDoubleTap ==
    [][ClaimSecondTap => "doubleTap" \in touch'.gm.emitted]_vars

\* C29: at most one refresh is in progress (its promise unsettled or its
\* reset pending), and pullDistance stays within 0..maxPull.
C29_OneRefreshAtATime ==
    /\ touch.ptr.promises + touch.ptr.timers <= 1
    /\ touch.ptr.pullDistance \in 0..touch.ptr.options.maxPull

\* a second refresh is in progress, the pull that started it reached maxPull,
\* and a touchstart has been handled since
C29_Witness ==
    /\ touch.ptr.refreshes = 2
    /\ touch.ptr.promises = 1
    /\ touch.ptr.isRefreshing
    /\ touch.ptr.pullDistance = touch.ptr.options.maxPull
    /\ touch.ptr.op = "touchstart"

====
